---- MODULE Spec2Model ----
(***************************************************************************)
(* Model of the analysis engine of sri_lanka_ai_server.py                  *)
(* (class SriLankanAgricultureAI and the three Flask routes that call it). *)
(*                                                                         *)
(* Conventions                                                             *)
(*   - A Python str is a sequence of one-character strings, so that        *)
(*     strip(), lower(), "in" and strptime() are computed on the text.     *)
(*   - A Python float is an exact rational [n, d] (d > 0, lowest terms),   *)
(*     or the NaN / infinity records that float() can produce.             *)
(*   - A Python dict whose order matters is a sequence of [k, v] pairs.    *)
(*   - A JSON value of farm_config is a record [t, s, v]: t = "absent"     *)
(*     (key missing), "null", "str" (text in s) or "num" (integer in v).   *)
(*   - A call that raises returns the record [raised |-> <exception>].     *)
(***************************************************************************)
EXTENDS Integers, Sequences, FiniteSets, TLC

----------------------------------------------------------------------------
(* Bounds of the model                                                     *)

MaxSamples == 2

MaxTicks == 1

MaxTemp == 45

MaxMoisture == 120

----------------------------------------------------------------------------
(* Python str                                                              *)

UpperChars == <<"A","B","C","D","E","F","G","H","I","J","K","L","M",
                "N","O","P","Q","R","S","T","U","V","W","X","Y","Z">>

LowerChars == <<"a","b","c","d","e","f","g","h","i","j","k","l","m",
                "n","o","p","q","r","s","t","u","v","w","x","y","z">>

DigitChars == <<"0","1","2","3","4","5","6","7","8","9">>

LowerChar(c) ==
  IF \E i \in 1..26 : UpperChars[i] = c
  THEN LowerChars[CHOOSE i \in 1..26 : UpperChars[i] = c]
  ELSE c

lower(s) == [i \in 1..Len(s) |-> LowerChar(s[i])]

IsSpace(c) == c = " "

strip(s) ==
  IF \A i \in 1..Len(s) : IsSpace(s[i])
  THEN << >>
  ELSE LET first == CHOOSE i \in 1..Len(s) :
                      /\ ~IsSpace(s[i])
                      /\ \A j \in 1..(i-1) : IsSpace(s[j])
           last  == CHOOSE i \in 1..Len(s) :
                      /\ ~IsSpace(s[i])
                      /\ \A j \in (i+1)..Len(s) : IsSpace(s[j])
       IN SubSeq(s, first, last)

contains(sub, s) ==
  \E i \in 1..(Len(s) - Len(sub) + 1) : SubSeq(s, i, i + Len(sub) - 1) = sub

IsDigit(c) == \E i \in 1..10 : DigitChars[i] = c

DigitVal(c) == (CHOOSE i \in 1..10 : DigitChars[i] = c) - 1

AllDigits(s) == Len(s) > 0 /\ \A i \in 1..Len(s) : IsDigit(s[i])

RECURSIVE DecVal(_)
DecVal(s) ==
  IF Len(s) = 0 THEN 0
  ELSE 10 * DecVal(SubSeq(s, 1, Len(s) - 1)) + DigitVal(s[Len(s)])

----------------------------------------------------------------------------
(* Python float as an exact rational                                       *)

Abs(x) == IF x < 0 THEN -x ELSE x

RECURSIVE Gcd(_, _)
Gcd(a, b) == IF b = 0 THEN a ELSE Gcd(b, a % b)

Rat(n, d) ==
  LET g == Gcd(Abs(n), Abs(d))
      sgn == IF d < 0 THEN -1 ELSE 1
  IN [n |-> sgn * (n \div g), d |-> sgn * (d \div g)]

Int2Rat(i) == [n |-> i, d |-> 1]

RAdd(a, b) == Rat(a.n * b.d + b.n * a.d, a.d * b.d)
RSub(a, b) == Rat(a.n * b.d - b.n * a.d, a.d * b.d)
RMul(a, b) == Rat(a.n * b.n, a.d * b.d)
RDivInt(a, k) == Rat(a.n, a.d * k)
RLe(a, b) == a.n * b.d <= b.n * a.d
RLt(a, b) == a.n * b.d < b.n * a.d
RMax(a, b) == IF RLt(b, a) THEN a ELSE b
RMin(a, b) == IF RLt(a, b) THEN a ELSE b
RAbs(a) == [n |-> Abs(a.n), d |-> a.d]

RECURSIVE RSum(_)
RSum(xs) == IF Len(xs) = 0 THEN Int2Rat(0) ELSE RAdd(Head(xs), RSum(Tail(xs)))

----------------------------------------------------------------------------
(* datetime: proleptic Gregorian ordinals, as datetime.toordinal()         *)

MAXORDINAL == 3652059

IsLeap(y) == (y % 4 = 0) /\ ((y % 100 # 0) \/ (y % 400 = 0))

DaysInMonth(y, m) ==
  IF m = 2 THEN (IF IsLeap(y) THEN 29 ELSE 28)
  ELSE IF m \in {4, 6, 9, 11} THEN 30 ELSE 31

RECURSIVE DaysBeforeMonth(_, _)
DaysBeforeMonth(y, m) ==
  IF m = 1 THEN 0 ELSE DaysBeforeMonth(y, m - 1) + DaysInMonth(y, m - 1)

DaysBeforeYear(y) ==
  (y - 1) * 365 + ((y - 1) \div 4) - ((y - 1) \div 100) + ((y - 1) \div 400)

Ymd2Ord(y, m, d) == DaysBeforeYear(y) + DaysBeforeMonth(y, m) + d

Ord2Ymd(o) ==
  LET n0   == o - 1
      n400 == n0 \div 146097
      r400 == n0 % 146097
      n100 == r400 \div 36524
      r100 == r400 % 36524
      n4   == r100 \div 1461
      r4   == r100 % 1461
      n1   == r4 \div 365
      r1   == r4 % 365
      yr   == n400 * 400 + 1 + n100 * 100 + n4 * 4 + n1
  IN IF n1 = 4 \/ n100 = 4
     THEN [y |-> yr - 1, m |-> 12, d |-> 31]
     ELSE LET mo == CHOOSE m \in 1..12 :
                      /\ DaysBeforeMonth(yr, m) <= r1
                      /\ r1 < DaysBeforeMonth(yr, m) + DaysInMonth(yr, m)
          IN [y |-> yr, m |-> mo, d |-> r1 - DaysBeforeMonth(yr, mo) + 1]

(* datetime(y, m, d): midnight of that day.  A datetime is [ord, tod],     *)
(* tod = 0 at midnight exactly and 1 at any later time of the day.         *)
datetime(y, m, d) == [ord |-> Ymd2Ord(y, m, d), tod |-> 0]

(* (a - b).days, the floor of the difference in days                       *)
DaysBetween(a, b) ==
  (a.ord - b.ord) - (IF a.tod < b.tod THEN 1 ELSE 0)

(* a 1- or 2-character field of strptime: "7", "07", "12"                  *)
TwoDigitField(s, max) ==
  /\ Len(s) \in {1, 2}
  /\ AllDigits(s)
  /\ s[1] # "0" \/ Len(s) = 2
  /\ DecVal(s) \in 1..max

(* datetime.strptime(s, '%Y-%m-%d'): the parsed datetime, or               *)
(* [raised |-> "ValueError"]                                               *)
strptime(s) ==
  LET err == [raised |-> "ValueError"]
  IN IF Len(s) < 8 \/ Len(s) > 10 THEN err
     ELSE IF ~AllDigits(SubSeq(s, 1, 4)) \/ s[5] # "-" THEN err
     ELSE
       LET rest == SubSeq(s, 6, Len(s))
           dashes == {p \in {2, 3} : rest[p] = "-"
                                    /\ \A q \in 1..(p-1) : rest[q] # "-"}
       IN IF dashes = {} THEN err
          ELSE
            LET p  == CHOOSE q \in dashes : TRUE
                ms == SubSeq(rest, 1, p - 1)
                ds == SubSeq(rest, p + 1, Len(rest))
                dd == IF Len(ds) = 2 /\ ds[1] = " " THEN SubSeq(ds, 2, 2) ELSE ds
            IN IF ~TwoDigitField(ms, 12) \/ ~TwoDigitField(dd, 31)
                  \/ (Len(ds) = 2 /\ ds[1] = " " /\ dd[1] = "0")
               THEN err
               ELSE
                 LET y == DecVal(SubSeq(s, 1, 4))
                     m == DecVal(ms)
                     d == DecVal(dd)
                 IN IF y < 1 \/ d > DaysInMonth(y, m) THEN err
                    ELSE datetime(y, m, d)

----------------------------------------------------------------------------
(* Text constants: table keys, keywords and risk-factor messages           *)

K_WetZone == <<"W","e","t"," ","Z","o","n","e">>

K_DryZone == <<"D","r","y"," ","Z","o","n","e">>

K_IntermediateZone ==
  <<"I","n","t","e","r","m","e","d","i","a","t","e"," ","Z","o","n",
     "e">>

K_EasternProvince ==
  <<"E","a","s","t","e","r","n"," ","P","r","o","v","i","n","c","e">>

K_Rice == <<"R","i","c","e">>

K_Tea == <<"T","e","a">>

K_Coconut == <<"C","o","c","o","n","u","t">>

K_Rubber == <<"R","u","b","b","e","r">>

K_Vegetables == <<"V","e","g","e","t","a","b","l","e","s">>

K_Maize == <<"M","a","i","z","e">>

K_Sesame == <<"S","e","s","a","m","e">>

K_Cotton == <<"C","o","t","t","o","n">>

K_Chili == <<"C","h","i","l","i">>

K_Fruits == <<"F","r","u","i","t","s">>

K_Spices == <<"S","p","i","c","e","s">>

K_BG352 == <<"B","G"," ","3","5","2">>

K_AT362 == <<"A","T"," ","3","6","2">>

K_BG300 == <<"B","G"," ","3","0","0">>

K_H4 == <<"H","-","4">>

K_TRI2025 == <<"T","R","I"," ","2","0","2","5">>

K_TRI2043 == <<"T","R","I"," ","2","0","4","3">>

K_TRI3055 == <<"T","R","I"," ","3","0","5","5">>

K_Dwarf == <<"D","w","a","r","f">>

K_Tall == <<"T","a","l","l">>

K_yala == <<"y","a","l","a">>

K_maha == <<"m","a","h","a">>

K_fungal == <<"f","u","n","g","a","l">>

K_root_rot == <<"r","o","o","t"," ","r","o","t">>

K_drought == <<"d","r","o","u","g","h","t">>

K_heat_stress == <<"h","e","a","t"," ","s","t","r","e","s","s">>

K_nan == <<"n","a","n">>

K_inf == <<"i","n","f">>

K_infinity == <<"i","n","f","i","n","i","t","y">>

M_Fungal ==
  <<"H","i","g","h"," ","f","u","n","g","a","l"," ","d","i","s","e",
     "a","s","e"," ","r","i","s","k"," ","d","u","e"," ","t","o"," ",
     "h","u","m","i","d"," ","c","o","n","d","i","t","i","o","n","s">>

M_RootRot ==
  <<"R","o","o","t"," ","r","o","t"," ","r","i","s","k"," ","d","u",
     "e"," ","t","o"," ","w","a","t","e","r","l","o","g","g","e","d",
     " ","s","o","i","l">>

M_Drought ==
  <<"P","l","a","n","t"," ","s","t","r","e","s","s"," ","d","u","e",
     " ","t","o"," ","d","r","o","u","g","h","t"," ","c","o","n","d",
     "i","t","i","o","n","s">>

M_Heat ==
  <<"H","e","a","t"," ","s","t","r","e","s","s"," ","r","i","s","k",
     " ","f","o","r"," ","c","r","o","p","s">>

M_Cold ==
  <<"C","o","l","d"," ","s","t","r","e","s","s"," ","r","i","s","k",
     " ","f","o","r"," ","t","r","o","p","i","c","a","l"," ","c","r",
     "o","p","s">>

M_Blast ==
  <<"B","l","a","s","t"," ","d","i","s","e","a","s","e"," ","r","i",
     "s","k"," ","i","n"," ","r","i","c","e">>

M_Scorch ==
  <<"T","e","a"," ","l","e","a","f"," ","s","c","o","r","c","h"," ",
     "r","i","s","k">>

----------------------------------------------------------------------------
(* Python dict with insertion order: a sequence of [k, v] pairs            *)

DictKeys(d) == [i \in 1..Len(d) |-> d[i].k]

DictValues(d) == [i \in 1..Len(d) |-> d[i].v]

DictHas(d, key) == \E i \in 1..Len(d) : d[i].k = key

DictGet(d, key) == d[CHOOSE i \in 1..Len(d) : d[i].k = key].v

InList(x, xs) == \E i \in 1..Len(xs) : xs[i] = x

KV(key, val) == [k |-> key, v |-> val]

----------------------------------------------------------------------------
(* Reference tables                                                        *)

_load_sri_lanka_agriculture_data ==
  [climate_zones |-> <<
      KV(K_WetZone,
         [rainfall_mm |-> <<200, 300, 400, 350, 180, 120, 100, 120, 200, 350, 400, 250>>,
          temperature_range |-> <<24, 30>>,
          humidity_range |-> <<75, 85>>,
          optimal_crops |-> <<K_Rice, K_Tea, K_Rubber, K_Coconut, K_Vegetables>>]),
      KV(K_DryZone,
         [rainfall_mm |-> <<50, 80, 120, 150, 80, 40, 30, 50, 120, 200, 180, 100>>,
          temperature_range |-> <<26, 35>>,
          humidity_range |-> <<60, 75>>,
          optimal_crops |-> <<K_Rice, K_Maize, K_Sesame, K_Cotton, K_Chili>>]),
      KV(K_IntermediateZone,
         [rainfall_mm |-> <<120, 180, 250, 220, 140, 80, 60, 80, 160, 280, 300, 180>>,
          temperature_range |-> <<22, 28>>,
          humidity_range |-> <<70, 80>>,
          optimal_crops |-> <<K_Rice, K_Vegetables, K_Fruits, K_Spices, K_Tea>>]) >>,
   crop_varieties |-> <<
      KV(K_Rice, <<
         KV(K_BG352, [yield_per_acre |-> Rat(45, 10), growth_days |-> 105, water_requirement |-> "High"]),
         KV(K_AT362, [yield_per_acre |-> Rat(42, 10), growth_days |-> 110, water_requirement |-> "Medium"]),
         KV(K_BG300, [yield_per_acre |-> Rat(40, 10), growth_days |-> 95, water_requirement |-> "High"]),
         KV(K_H4,    [yield_per_acre |-> Rat(38, 10), growth_days |-> 120, water_requirement |-> "Medium"]) >>),
      KV(K_Tea, <<
         KV(K_TRI2025, [yield_per_acre |-> Rat(1500, 1), growth_years |-> 3, elevation |-> "High"]),
         KV(K_TRI2043, [yield_per_acre |-> Rat(1400, 1), growth_years |-> 3, elevation |-> "Medium"]),
         KV(K_TRI3055, [yield_per_acre |-> Rat(1600, 1), growth_years |-> 4, elevation |-> "High"]) >>),
      KV(K_Coconut, <<
         KV(K_Dwarf, [nuts_per_tree |-> 180, growth_years |-> 5, lifespan |-> 80]),
         KV(K_Tall,  [nuts_per_tree |-> 120, growth_years |-> 8, lifespan |-> 100]) >>) >>,
   soil_types |-> <<
      KV("Red Earth", [pH_range |-> <<Rat(55, 10), Rat(65, 10)>>, fertility |-> "Medium", drainage |-> "Good"]),
      KV("Alluvial",  [pH_range |-> <<Rat(60, 10), Rat(75, 10)>>, fertility |-> "High", drainage |-> "Medium"]),
      KV("Laterite",  [pH_range |-> <<Rat(50, 10), Rat(60, 10)>>, fertility |-> "Low", drainage |-> "Excellent"]),
      KV("Peat",      [pH_range |-> <<Rat(45, 10), Rat(55, 10)>>, fertility |-> "High", drainage |-> "Poor"]),
      KV("Clay",      [pH_range |-> <<Rat(65, 10), Rat(75, 10)>>, fertility |-> "Medium", drainage |-> "Poor"]) >>]

_get_monsoon_patterns ==
  << KV("Southwest Monsoon",
        [months |-> <<5, 6, 7, 8, 9>>,
         peak_rainfall |-> <<6, 7>>,
         affected_zones |-> <<K_WetZone, K_IntermediateZone>>]),
     KV("Northeast Monsoon",
        [months |-> <<10, 11, 12, 1, 2>>,
         peak_rainfall |-> <<11, 12>>,
         affected_zones |-> <<K_DryZone, K_EasternProvince>>]),
     KV("Inter Monsoon",
        [months |-> <<3, 4, 9, 10>>,
         characteristics |-> "Variable rainfall, thunderstorms"]) >>

----------------------------------------------------------------------------
(* State                                                                   *)
(*   sri_lanka_data, monsoon_patterns : tables of the shared ai_system     *)
(*   current_time : the wall clock read by datetime.now()                  *)
(*   ticks        : how often the clock has advanced (model bound)         *)
(*   call         : the last request or method call, with its arguments    *)
(*   ret          : what that call returned                                *)

VARIABLES sri_lanka_data, monsoon_patterns, current_time, ticks, call, ret

vars == <<sri_lanka_data, monsoon_patterns, current_time, ticks, call, ret>>

----------------------------------------------------------------------------
(* JSON values of farm_config and of a sensor sample                       *)

JAbsent == [t |-> "absent", s |-> << >>, v |-> 0]

JNull == [t |-> "null", s |-> << >>, v |-> 0]

JStr(chars) == [t |-> "str", s |-> chars, v |-> 0]

JNum(i) == [t |-> "num", s |-> << >>, v |-> i]

(* dict.get(key, default) on a farm_config                                 *)
Get(cfg, key, default) == IF cfg[key].t = "absent" THEN default ELSE cfg[key]

(* dict.get(key, default) on a result record                               *)
RGet(rec, key, default) == IF key \in DOMAIN rec THEN rec[key] ELSE default

AttributeError == [raised |-> "AttributeError"]

OverflowError == [raised |-> "OverflowError"]

Raised(r) == "raised" \in DOMAIN r

(* bool(x) for the JSON values that reach "x or 0" and "if not x"          *)
Truthy(x) ==
  CASE x.t = "str" -> Len(x.s) > 0
    [] x.t = "num" -> x.v # 0
    [] OTHER -> FALSE

----------------------------------------------------------------------------
(* Sensor Aggregator                                                       *)

(* [d[f] for d in sensor_data if d.get(f) is not None]                     *)
Present(sensor_data, f) ==
  LET kept == SelectSeq(sensor_data, LAMBDA d : d[f].t = "num")
  IN [i \in 1..Len(kept) |-> kept[i][f].v]

(* np.mean, np.min, np.max, max over a non-empty list of integers          *)
RECURSIVE Sum(_)
Sum(xs) == IF Len(xs) = 0 THEN 0 ELSE Head(xs) + Sum(Tail(xs))

Mean(xs) == Rat(Sum(xs), Len(xs))

SeqMin(xs) == CHOOSE x \in {xs[i] : i \in 1..Len(xs)} : \A j \in 1..Len(xs) : x <= xs[j]

SeqMax(xs) == CHOOSE x \in {xs[i] : i \in 1..Len(xs)} : \A j \in 1..Len(xs) : x >= xs[j]

NoSensorData == [status |-> "No sensor data available"]

_analyze_sensor_data(sensor_data) ==
  IF Len(sensor_data) = 0 THEN NoSensorData
  ELSE
    LET temperatures  == Present(sensor_data, "temperature")
        humidity      == Present(sensor_data, "humidity")
        soil_moisture == Present(sensor_data, "soil_moisture")
    IN [average_temperature |->
          IF Len(temperatures) > 0 THEN Mean(temperatures) ELSE Int2Rat(0),
        average_humidity |->
          IF Len(humidity) > 0 THEN Mean(humidity) ELSE Int2Rat(0),
        average_soil_moisture |->
          IF Len(soil_moisture) > 0 THEN Mean(soil_moisture) ELSE Int2Rat(0),
        temperature_range |->
          IF Len(temperatures) > 0
          THEN <<Int2Rat(SeqMin(temperatures)), Int2Rat(SeqMax(temperatures))>>
          ELSE <<Int2Rat(0), Int2Rat(0)>>,
        data_points |-> Len(sensor_data),
        last_reading |-> SeqMax([i \in 1..Len(sensor_data) |-> sensor_data[i].timestamp])]

----------------------------------------------------------------------------
(* Climate-Zone Analyzer                                                   *)

(* the first key of table d that equals key ignoring case (the for loop    *)
(* with break); only called when one exists                                *)
FirstCaseInsensitive(d, key) ==
  d[CHOOSE i \in 1..Len(d) :
      /\ lower(d[i].k) = lower(key)
      /\ \A j \in 1..(i-1) : lower(d[j].k) # lower(key)].k

HasCaseInsensitive(d, key) == \E i \in 1..Len(d) : lower(d[i].k) = lower(key)

(* mutant: the lookup without the case-insensitive loop                    *)
ResolveKey_exact_only(d, key) ==
  IF DictHas(d, key) THEN key ELSE << >>

(* exact key, else the case-insensitive match, else "" (no entry)          *)
ResolveKey(d, key) ==
  IF DictHas(d, key) THEN key
  ELSE IF HasCaseInsensitive(d, key) THEN FirstCaseInsensitive(d, key)
  ELSE << >>

_analyze_climate_zone(farm_config, sensor_analysis) ==
  LET raw == Get(farm_config, "climateZone", JStr(<< >>))
  IN IF raw.t # "str" THEN AttributeError
     ELSE
       LET climate_zone == strip(raw.s)
           zones == sri_lanka_data.climate_zones
       IN IF Len(climate_zone) = 0
          THEN [status |-> "Climate zone not specified",
                message |-> "Please set your climate zone in the farm configuration settings",
                available_zones |-> DictKeys(zones),
                required_fields |-> <<"climateZone">>]
          ELSE
            LET resolved == ResolveKey(zones, climate_zone)
            IN IF ~DictHas(zones, resolved)
               THEN [status |-> "Unknown climate zone",
                     message |-> <<"Climate zone not recognized. Please select from available options.",
                                   climate_zone>>,
                     available_zones |-> DictKeys(zones),
                     current_value |-> climate_zone,
                     required_fields |-> <<"climateZone">>]
               ELSE
                 LET zone_data == DictGet(zones, resolved)
                     current_temp == RGet(sensor_analysis, "average_temperature", Int2Rat(0))
                     current_humidity == RGet(sensor_analysis, "average_humidity", Int2Rat(0))
                     temp_optimal ==
                       /\ RLe(Int2Rat(zone_data.temperature_range[1]), current_temp)
                       /\ RLe(current_temp, Int2Rat(zone_data.temperature_range[2]))
                     humidity_optimal ==
                       /\ RLe(Int2Rat(zone_data.humidity_range[1]), current_humidity)
                       /\ RLe(current_humidity, Int2Rat(zone_data.humidity_range[2]))
                 IN [climate_zone |-> resolved,
                     optimal_temperature_range |-> zone_data.temperature_range,
                     optimal_humidity_range |-> zone_data.humidity_range,
                     current_temperature_status |->
                       IF temp_optimal THEN "Optimal" ELSE "Outside range",
                     current_humidity_status |->
                       IF humidity_optimal THEN "Optimal" ELSE "Outside range",
                     recommended_crops |-> zone_data.optimal_crops,
                     monthly_rainfall_pattern |-> zone_data.rainfall_mm]

----------------------------------------------------------------------------
(* Monsoon Analyzer                                                        *)

MonthNames == <<"January", "February", "March", "April", "May", "June", "July",
                "August", "September", "October", "November", "December">>

Month(t) == Ord2Ymd(t.ord).m

Year(t) == Ord2Ymd(t.ord).y

_get_monsoon_farming_advice(active_monsoons, is_peak_rainfall) ==
  (IF InList("Southwest Monsoon", active_monsoons)
   THEN <<"Southwest monsoon active - good time for Yala cultivation">> ELSE << >>)
  \o (IF InList("Northeast Monsoon", active_monsoons)
      THEN <<"Northeast monsoon active - prepare for Maha season">> ELSE << >>)
  \o (IF is_peak_rainfall
      THEN <<"Peak rainfall period - monitor drainage systems">> ELSE << >>)

(* mutant: a monsoon with affected zones counts only for an exact match   *)
MonsoonActive_exact_zone_only(data, current_month, climate_zone) ==
  /\ InList(current_month, data.months)
  /\ LET affected_zones == RGet(data, "affected_zones", << >>)
     IN \/ Len(affected_zones) = 0
        \/ InList(climate_zone, affected_zones)

MonsoonActive(data, current_month, climate_zone) ==
  /\ InList(current_month, data.months)
  /\ LET affected_zones == RGet(data, "affected_zones", << >>)
     IN \/ Len(affected_zones) = 0
        \/ InList(climate_zone, affected_zones)
        \/ \E i \in 1..Len(affected_zones) :
             lower(affected_zones[i]) = lower(climate_zone)

_analyze_monsoon_impact(now, farm_config) ==
  LET raw == Get(farm_config, "climateZone", JStr(<< >>))
  IN IF raw.t # "str" THEN AttributeError
     ELSE
       LET current_month == Month(now)
           climate_zone == strip(raw.s)
           active == SelectSeq(monsoon_patterns,
                       LAMBDA p : MonsoonActive(p.v, current_month, climate_zone))
           active_monsoons == DictKeys(active)
           is_peak_rainfall ==
             \E i \in 1..Len(active) :
               InList(current_month, RGet(active[i].v, "peak_rainfall", << >>))
       IN [current_month |-> current_month,
           current_month_name |-> MonthNames[current_month],
           climate_zone |-> climate_zone,
           active_monsoons |-> active_monsoons,
           is_peak_rainfall_period |-> is_peak_rainfall,
           expected_rainfall_level |->
             IF is_peak_rainfall THEN "High"
             ELSE IF Len(active_monsoons) > 0 THEN "Medium" ELSE "Low",
           farming_recommendations |->
             _get_monsoon_farming_advice(active_monsoons, is_peak_rainfall)]

----------------------------------------------------------------------------
(* Environmental Factor Calculators                                        *)

_calculate_temperature_factor(temp) ==
  IF RLe(Int2Rat(20), temp) /\ RLe(temp, Int2Rat(30))
  THEN RAdd(Int2Rat(1),
            RDivInt(RMul(Rat(1, 10), RSub(Int2Rat(30), RAbs(RSub(temp, Int2Rat(25))))), 5))
  ELSE IF RLt(temp, Int2Rat(20))
  THEN RAdd(Rat(1, 2), RDivInt(temp, 40))
  ELSE RMax(Rat(1, 2), RSub(Int2Rat(1), RDivInt(RSub(temp, Int2Rat(30)), 20)))

(* mutant: the branch for moisture > 70 without max(0.7, ...)              *)
_calculate_moisture_factor_no_floor(moisture) ==
  IF RLe(Int2Rat(40), moisture) /\ RLe(moisture, Int2Rat(70))
  THEN Rat(12, 10)
  ELSE IF RLt(moisture, Int2Rat(40))
  THEN RAdd(Rat(1, 2), RDivInt(moisture, 80))
  ELSE RSub(Rat(12, 10), RDivInt(RSub(moisture, Int2Rat(70)), 60))

_calculate_moisture_factor(moisture) ==
  IF RLe(Int2Rat(40), moisture) /\ RLe(moisture, Int2Rat(70))
  THEN Rat(12, 10)
  ELSE IF RLt(moisture, Int2Rat(40))
  THEN RAdd(Rat(1, 2), RDivInt(moisture, 80))
  ELSE RMax(Rat(7, 10), RSub(Rat(12, 10), RDivInt(RSub(moisture, Int2Rat(70)), 60)))

(* crop_type in optimal_crops, for the raw (unstripped) JSON values: a     *)
(* null or numeric value is simply not a member of the list                *)
_calculate_climate_factor(farm_config) ==
  LET climate_zone == Get(farm_config, "climateZone", JStr(<< >>))
      crop_type == Get(farm_config, "cropType", JStr(<< >>))
      zones == sri_lanka_data.climate_zones
      optimal_crops ==
        IF climate_zone.t = "str" /\ DictHas(zones, climate_zone.s)
        THEN DictGet(zones, climate_zone.s).optimal_crops
        ELSE << >>
  IN IF crop_type.t = "str" /\ InList(crop_type.s, optimal_crops)
     THEN Rat(11, 10)
     ELSE Rat(9, 10)

----------------------------------------------------------------------------
(* float(), round() and the float values of the yield prediction           *)
(* A float value is [k, r]: k = "fin" with the rational r, or "nan",       *)
(* "inf", "-inf" (r unused).                                               *)

Fin(r) == [k |-> "fin", r |-> r]

NaN == [k |-> "nan", r |-> Int2Rat(0)]

Inf == [k |-> "inf", r |-> Int2Rat(0)]

NegInf == [k |-> "-inf", r |-> Int2Rat(0)]

RECURSIVE Pow10(_)
Pow10(k) == IF k = 0 THEN 1 ELSE 10 * Pow10(k - 1)

(* digits, or digits "." digits with at least one digit in all             *)
UnsignedDecimal(s) ==
  LET dots == {i \in 1..Len(s) : s[i] = "."}
  IN IF dots = {} THEN AllDigits(s)
     ELSE /\ Cardinality(dots) = 1
          /\ Len(s) >= 2
          /\ \A i \in 1..Len(s) : s[i] = "." \/ IsDigit(s[i])

UnsignedValue(s) ==
  LET dots == {i \in 1..Len(s) : s[i] = "."}
  IN IF dots = {} THEN Int2Rat(DecVal(s))
     ELSE LET p == CHOOSE i \in dots : TRUE
              ip == SubSeq(s, 1, p - 1)
              fp == SubSeq(s, p + 1, Len(s))
          IN Rat(DecVal(ip) * Pow10(Len(fp)) + DecVal(fp), Pow10(Len(fp)))

(* float(text) for plain decimal text, "nan", "inf" and "infinity" (any    *)
(* case, optional sign, surrounding blanks); [raised |-> "ValueError"]     *)
(* for any other text of the input sets (none uses an exponent or "_")     *)
FloatOfStr(s) ==
  LET t == strip(s)
      signed == Len(t) > 0 /\ t[1] \in {"+", "-"}
      neg == Len(t) > 0 /\ t[1] = "-"
      body == IF signed THEN SubSeq(t, 2, Len(t)) ELSE t
  IN IF lower(body) = K_nan THEN NaN
     ELSE IF lower(body) \in {K_inf, K_infinity} THEN (IF neg THEN NegInf ELSE Inf)
     ELSE IF Len(body) > 0 /\ UnsignedDecimal(body)
     THEN Fin(IF neg THEN RSub(Int2Rat(0), UnsignedValue(body)) ELSE UnsignedValue(body))
     ELSE [raised |-> "ValueError"]

(* try: float(field_size_str or 0)  except (ValueError, TypeError): 0      *)
ParseFieldSize(field_size_str) ==
  IF ~Truthy(field_size_str) THEN Fin(Int2Rat(0))
  ELSE IF field_size_str.t = "num" THEN Fin(Int2Rat(field_size_str.v))
  ELSE LET f == FloatOfStr(field_size_str.s)
       IN IF Raised(f) THEN Fin(Int2Rat(0)) ELSE f

(* field_size <= 0 *)
FLeZero(f) == (f.k = "fin" /\ RLe(f.r, Int2Rat(0))) \/ f.k = "-inf"

(* x * f for a finite positive rational x                                  *)
FMul(x, f) == IF f.k = "fin" THEN Fin(RMul(x, f.r)) ELSE f

Floor(r) == r.n \div r.d

(* round(r, nd): nearest multiple of 10^-nd, ties to even (the ties of     *)
(* exact rationals; a binary float next to a tie may round the other way)  *)
Round(r, nd) ==
  LET scaled == RMul(r, Int2Rat(Pow10(nd)))
      lo == Floor(scaled)
      twice == RSub(RMul(scaled, Int2Rat(2)), Int2Rat(2 * lo))
      up == RLt(Int2Rat(1), twice) \/ (twice = Int2Rat(1) /\ lo % 2 = 1)
  IN Rat(IF up THEN lo + 1 ELSE lo, Pow10(nd))

FRound(f, nd) == IF f.k = "fin" THEN Fin(Round(f.r, nd)) ELSE f

RDiv(a, b) == Rat(a.n * b.d, a.d * b.n)

Min(a, b) == IF a < b THEN a ELSE b

Max(a, b) == IF a > b THEN a ELSE b

----------------------------------------------------------------------------
(* Yield Predictor                                                         *)

_get_yield_unit(crop_type) ==
  LET units == << KV(K_Rice, "tons/acre"), KV(K_Tea, "kg/acre"),
                  KV(K_Coconut, "nuts/tree"), KV(K_Rubber, "kg/acre") >>
  IN IF DictHas(units, crop_type) THEN DictGet(units, crop_type) ELSE "kg/acre"

_categorize_yield(predicted, base) ==
  LET ratio == IF RLt(Int2Rat(0), base) THEN RDiv(predicted, base) ELSE Int2Rat(0)
  IN IF RLe(Rat(11, 10), ratio) THEN "Excellent"
     ELSE IF RLe(Rat(9, 10), ratio) THEN "Good"
     ELSE IF RLe(Rat(7, 10), ratio) THEN "Average"
     ELSE "Below Average"

(* mutant: the variety lookup without the case-insensitive loop            *)
VarietyKey_exact_only(crop_data, seed_variety) ==
  IF DictHas(crop_data, seed_variety) THEN seed_variety ELSE << >>

(* crop_data.get(seed_variety, {}) then the case-insensitive loop, which   *)
(* runs only for a non-empty seed_variety; << >> is the empty dict         *)
VarietyKey(crop_data, seed_variety) ==
  IF DictHas(crop_data, seed_variety) THEN seed_variety
  ELSE IF Len(seed_variety) > 0 /\ HasCaseInsensitive(crop_data, seed_variety)
  THEN FirstCaseInsensitive(crop_data, seed_variety)
  ELSE << >>

(* mutant: always the average of the crop, the variety is ignored          *)
BaseYieldPerAcre_crop_average(crop_data, seed_variety) ==
  IF Len(crop_data) > 0
  THEN RDivInt(RSum([i \in 1..Len(crop_data) |->
                       RGet(crop_data[i].v, "yield_per_acre", Int2Rat(0))]),
               Len(crop_data))
  ELSE Int2Rat(0)

BaseYieldPerAcre(crop_data, seed_variety) ==
  LET key == VarietyKey(crop_data, seed_variety)
  IN IF DictHas(crop_data, key)
     THEN RGet(DictGet(crop_data, key), "yield_per_acre", Int2Rat(0))
     ELSE IF Len(crop_data) > 0
     THEN RDivInt(RSum([i \in 1..Len(crop_data) |->
                          RGet(crop_data[i].v, "yield_per_acre", Int2Rat(0))]),
                  Len(crop_data))
     ELSE Int2Rat(0)

(* crop_varieties.get(crop_type, {}) resolved with the case-insensitive    *)
(* loop: the canonical crop name, or the given one when nothing matches    *)
CropKey(crop_type) ==
  LET crops == sri_lanka_data.crop_varieties
      k == ResolveKey(crops, crop_type)
  IN IF DictHas(crops, k) THEN k ELSE crop_type

CropData(crop_type) ==
  LET crops == sri_lanka_data.crop_varieties
  IN IF DictHas(crops, CropKey(crop_type)) THEN DictGet(crops, CropKey(crop_type)) ELSE << >>

_predict_yield(farm_config, sensor_analysis) ==
  LET raw_crop == Get(farm_config, "cropType", JStr(<< >>))
      raw_seed == Get(farm_config, "seedVariety", JStr(<< >>))
      field_size_str == Get(farm_config, "fieldSize",
                            Get(farm_config, "field_size_acres", JStr(<<"0">>)))
  IN IF raw_crop.t # "str" \/ raw_seed.t # "str" THEN AttributeError
     ELSE
       LET given_crop == strip(raw_crop.s)
           seed_variety == strip(raw_seed.s)
           field_size == ParseFieldSize(field_size_str)
       IN IF Len(given_crop) = 0
          THEN [status |-> "Crop type not specified",
                message |-> "Please set your crop type in the farm configuration settings",
                required_fields |-> <<"cropType">>]
          ELSE IF FLeZero(field_size)
          THEN [status |-> "Field size not specified or invalid",
                message |-> "Please enter a valid field size (in acres) in the farm configuration settings",
                required_fields |-> <<"fieldSize">>,
                current_value |-> field_size_str]
          ELSE
            LET crop_type == CropKey(given_crop)
                crop_data == CropData(given_crop)
                base_yield_per_acre == BaseYieldPerAcre(crop_data, seed_variety)
            IN IF base_yield_per_acre = Int2Rat(0)
               THEN [status |-> <<"No yield data available for", crop_type>>]
               ELSE
                 LET temp_factor == _calculate_temperature_factor(
                       RGet(sensor_analysis, "average_temperature", Int2Rat(25)))
                     moisture_factor == _calculate_moisture_factor(
                       RGet(sensor_analysis, "average_soil_moisture", Int2Rat(50)))
                     climate_factor == _calculate_climate_factor(farm_config)
                     total_factor ==
                       RDivInt(RAdd(RAdd(temp_factor, moisture_factor), climate_factor), 3)
                     predicted_yield_per_acre == RMul(base_yield_per_acre, total_factor)
                     total_predicted_yield == FMul(predicted_yield_per_acre, field_size)
                     confidence ==
                       Min(95, Max(60, 80 + RGet(sensor_analysis, "data_points", 1) * 2))
                 IN [crop_type |-> crop_type,
                     seed_variety |-> seed_variety,
                     field_size_acres |-> field_size,
                     base_yield_per_acre |-> Round(base_yield_per_acre, 2),
                     predicted_yield_per_acre |-> Round(predicted_yield_per_acre, 2),
                     total_predicted_yield |-> FRound(total_predicted_yield, 2),
                     yield_unit |-> _get_yield_unit(crop_type),
                     environmental_factors |->
                       [temperature_factor |-> Round(temp_factor, 3),
                        moisture_factor |-> Round(moisture_factor, 3),
                        climate_factor |-> Round(climate_factor, 3)],
                     confidence_percentage |-> confidence,
                     yield_category |->
                       _categorize_yield(predicted_yield_per_acre, base_yield_per_acre)]

----------------------------------------------------------------------------
(* Harvest Forecaster                                                      *)

(* mutant: the "maha" test placed before the "yala" test                   *)
ParsePlantingDate_maha_first(planting_date, now) ==
  IF contains(K_maha, lower(planting_date)) THEN datetime(Year(now), 11, 15)
  ELSE IF contains(K_yala, lower(planting_date)) THEN datetime(Year(now), 5, 15)
  ELSE strptime(planting_date)

(* the try block of the date parsing: "yala" / "maha" / strptime; the      *)
(* result is a datetime or [raised |-> ...]                                *)
ParsePlantingDate(planting_date, now) ==
  IF contains(K_yala, lower(planting_date)) THEN datetime(Year(now), 5, 15)
  ELSE IF contains(K_maha, lower(planting_date)) THEN datetime(Year(now), 11, 15)
  ELSE strptime(planting_date)

_get_growth_stage_name(percentage) ==
  IF RLt(percentage, Int2Rat(25)) THEN "Seedling Stage"
  ELSE IF RLt(percentage, Int2Rat(50)) THEN "Vegetative Growth"
  ELSE IF RLt(percentage, Int2Rat(75)) THEN "Flowering Stage"
  ELSE IF RLt(percentage, Int2Rat(95)) THEN "Fruit Development"
  ELSE "Harvest Ready"

_get_harvest_season(harvest_date) ==
  LET month == Month(harvest_date)
  IN IF month \in {3, 4, 5} THEN "Yala Harvest Season"
     ELSE IF month \in {8, 9, 10} THEN "Maha Harvest Season"
     ELSE "Off-season Harvest"

GrowthPeriod(crop_data) ==
  LET growth_data == DictValues(crop_data)[1]
  IN IF "growth_days" \in DOMAIN growth_data THEN growth_data.growth_days
     ELSE IF "growth_years" \in DOMAIN growth_data THEN growth_data.growth_years * 365
     ELSE 120

_forecast_harvest(farm_config, now) ==
  LET raw_crop == Get(farm_config, "cropType", JStr(<< >>))
      raw_date == Get(farm_config, "plantingDate", JStr(<< >>))
  IN IF raw_crop.t # "str" \/ raw_date.t # "str" THEN AttributeError
     ELSE
       LET given_crop == strip(raw_crop.s)
           planting_date == strip(raw_date.s)
       IN IF Len(given_crop) = 0
          THEN [status |-> "Crop type not specified",
                message |-> "Please set your crop type in the farm configuration settings",
                required_fields |-> <<"cropType">>]
          ELSE IF Len(planting_date) = 0
          THEN [status |-> "Planting date not specified",
                message |-> "Please set your planting date in the farm configuration settings. Use YYYY-MM-DD format or Yala/Maha season",
                required_fields |-> <<"plantingDate">>]
          ELSE
            LET planting_datetime == ParsePlantingDate(planting_date, now)
                crop_type == CropKey(given_crop)
                crop_data == CropData(given_crop)
            IN IF Raised(planting_datetime)
               THEN [status |-> "Planting date not available or in unrecognized format"]
               ELSE IF Len(crop_data) = 0
               THEN [status |-> <<"No growth data available for", crop_type>>]
               ELSE
                 LET growth_period == GrowthPeriod(crop_data)
                     harvest_date == [ord |-> planting_datetime.ord + growth_period,
                                      tod |-> planting_datetime.tod]
                     days_to_harvest == DaysBetween(harvest_date, now)
                     days_since_planting == DaysBetween(now, planting_datetime)
                     growth_percentage ==
                       RMin(Int2Rat(100),
                            RMax(Int2Rat(0), Rat(days_since_planting * 100, growth_period)))
                 IN IF harvest_date.ord > MAXORDINAL THEN OverflowError
                    ELSE
                      [crop_type |-> crop_type,
                       planting_date |-> Ord2Ymd(planting_datetime.ord),
                       expected_harvest_date |-> Ord2Ymd(harvest_date.ord),
                       days_to_harvest |-> days_to_harvest,
                       growth_stage_percentage |-> Round(growth_percentage, 1),
                       growth_stage_name |-> _get_growth_stage_name(growth_percentage),
                       harvest_season |-> _get_harvest_season(harvest_date),
                       harvest_status |->
                         IF days_to_harvest <= 0 THEN "Ready"
                         ELSE IF days_to_harvest <= 30 THEN "Growing"
                         ELSE "Early stage"]

----------------------------------------------------------------------------
(* Growth-stage calculator and Crop-Specific Analyzer                      *)

(* plantingDate is used as received (no strip); every exception of the     *)
(* try block, the AttributeError of a non-string value included, is caught *)
_calculate_growth_stage(farm_config, now) ==
  LET planting_date == Get(farm_config, "plantingDate", JStr(<< >>))
  IN IF ~Truthy(planting_date)
     THEN [status |-> "Planting date not provided"]
     ELSE IF planting_date.t # "str"
     THEN [status |-> "Could not calculate growth stage"]
     ELSE
       LET plant_date == ParsePlantingDate(planting_date.s, now)
       IN IF Raised(plant_date)
          THEN [status |-> "Could not calculate growth stage"]
          ELSE
            LET days_since_planting == DaysBetween(now, plant_date)
            IN IF days_since_planting < 0
               THEN [stage |-> "Pre-planting", days |-> Abs(days_since_planting)]
               ELSE IF days_since_planting < 30
               THEN [stage |-> "Germination/Seedling", days |-> days_since_planting]
               ELSE IF days_since_planting < 60
               THEN [stage |-> "Vegetative Growth", days |-> days_since_planting]
               ELSE IF days_since_planting < 90
               THEN [stage |-> "Flowering/Reproductive", days |-> days_since_planting]
               ELSE [stage |-> "Maturation/Harvest Ready", days |-> days_since_planting]

_get_crop_optimal_conditions(crop_type) ==
  LET conditions == <<
        KV(K_Rice, [temperature |-> <<22, 32>>, humidity |-> <<70, 85>>, soil_moisture |-> <<60, 80>>]),
        KV(K_Tea, [temperature |-> <<18, 25>>, humidity |-> <<75, 85>>, soil_moisture |-> <<50, 70>>]),
        KV(K_Coconut, [temperature |-> <<24, 32>>, humidity |-> <<70, 80>>, soil_moisture |-> <<40, 60>>]),
        KV(K_Vegetables, [temperature |-> <<20, 28>>, humidity |-> <<65, 80>>, soil_moisture |-> <<50, 75>>]) >>
  IN IF DictHas(conditions, crop_type) THEN DictGet(conditions, crop_type)
     ELSE DictGet(conditions, K_Vegetables)

Within(range, x) == RLe(Int2Rat(range[1]), x) /\ RLe(x, Int2Rat(range[2]))

_assess_current_suitability(crop_type, sensor_analysis) ==
  LET optimal == _get_crop_optimal_conditions(crop_type)
      temp == RGet(sensor_analysis, "average_temperature", Int2Rat(25))
      humidity == RGet(sensor_analysis, "average_humidity", Int2Rat(70))
      moisture == RGet(sensor_analysis, "average_soil_moisture", Int2Rat(50))
      temp_ok == Within(optimal.temperature, temp)
      humidity_ok == Within(optimal.humidity, humidity)
      moisture_ok == Within(optimal.soil_moisture, moisture)
      count == (IF temp_ok THEN 1 ELSE 0) + (IF humidity_ok THEN 1 ELSE 0)
               + (IF moisture_ok THEN 1 ELSE 0)
      suitability_score == Rat(count * 100, 3)
  IN [overall_suitability |-> Round(suitability_score, 1),
      temperature_suitable |-> temp_ok,
      humidity_suitable |-> humidity_ok,
      soil_moisture_suitable |-> moisture_ok,
      status |-> IF RLt(Int2Rat(90), suitability_score) THEN "Excellent"
                 ELSE IF RLt(Int2Rat(70), suitability_score) THEN "Good"
                 ELSE IF RLt(Int2Rat(50), suitability_score) THEN "Fair"
                 ELSE "Poor"]

_analyze_crop_specific(farm_config, sensor_analysis, now) ==
  LET raw_crop == Get(farm_config, "cropType", JStr(<< >>))
      raw_seed == Get(farm_config, "seedVariety", JStr(<< >>))
  IN IF raw_crop.t # "str" \/ raw_seed.t # "str" THEN AttributeError
     ELSE
       LET crop_type == strip(raw_crop.s)
           seed_variety == strip(raw_seed.s)
           crops == sri_lanka_data.crop_varieties
           crop_info == IF DictHas(crops, crop_type) THEN DictGet(crops, crop_type) ELSE << >>
           variety_info ==
             IF Len(seed_variety) > 0 /\ DictHas(crop_info, seed_variety)
             THEN DictGet(crop_info, seed_variety) ELSE << >>
       IN IF Len(crop_type) = 0 THEN [status |-> "Crop type not specified"]
          ELSE [crop_type |-> crop_type,
                seed_variety |-> seed_variety,
                variety_details |-> variety_info,
                growth_stage |-> _calculate_growth_stage(farm_config, now),
                optimal_conditions |-> _get_crop_optimal_conditions(crop_type),
                current_suitability |-> _assess_current_suitability(crop_type, sensor_analysis)]

----------------------------------------------------------------------------
(* Synthetic Weather Forecaster                                            *)
(* noise[i] = [temp, humidity]: the two np.random.normal draws of day i    *)

_calculate_rainfall_probability(date, climate_zone) ==
  LET month == Month(date)
      zones == sri_lanka_data.climate_zones
      monthly_rainfall ==
        IF climate_zone.t = "str" /\ DictHas(zones, climate_zone.s)
        THEN DictGet(zones, climate_zone.s).rainfall_mm
        ELSE [i \in 1..12 |-> 100]
      rainfall_mm == monthly_rainfall[month]
  IN RMin(Int2Rat(90), RMax(Int2Rat(10), Rat(rainfall_mm, 5)))

(* mutant: the temperature test placed before the rainfall tests           *)
_determine_weather_conditions_temperature_first(temp, humidity, rainfall_prob) ==
  IF RLt(Int2Rat(32), temp) THEN "Hot and Sunny"
  ELSE IF RLt(Int2Rat(70), rainfall_prob) THEN "Rainy"
  ELSE IF RLt(Int2Rat(40), rainfall_prob) THEN "Partly Cloudy"
  ELSE IF RLt(Int2Rat(85), humidity) THEN "Humid"
  ELSE "Fair"

_determine_weather_conditions(temp, humidity, rainfall_prob) ==
  IF RLt(Int2Rat(70), rainfall_prob) THEN "Rainy"
  ELSE IF RLt(Int2Rat(40), rainfall_prob) THEN "Partly Cloudy"
  ELSE IF RLt(Int2Rat(32), temp) THEN "Hot and Sunny"
  ELSE IF RLt(Int2Rat(85), humidity) THEN "Humid"
  ELSE "Fair"

_get_weather_farming_advice(forecast_days) ==
  LET high_rain_days ==
        Cardinality({i \in 1..Len(forecast_days) :
                       RLt(Int2Rat(70), forecast_days[i].rainfall_probability)})
      hot_days ==
        Cardinality({i \in 1..Len(forecast_days) :
                       RLt(Int2Rat(32), forecast_days[i].temperature_celsius)})
  IN (IF high_rain_days >= 3
      THEN <<"Heavy rain expected - ensure proper drainage">> ELSE << >>)
     \o (IF hot_days >= 3
         THEN <<"Hot weather expected - increase irrigation frequency">> ELSE << >>)

ForecastDays == 7

_forecast_weather(farm_config, sensor_analysis, now, noise) ==
  LET climate_zone == Get(farm_config, "climateZone", JStr(<< >>))
      location == Get(farm_config, "location", JStr(<< >>))
      current_temp == RGet(sensor_analysis, "average_temperature", Int2Rat(27))
      current_humidity == RGet(sensor_analysis, "average_humidity", Int2Rat(75))
      forecast_days ==
        [i \in 1..ForecastDays |->
           LET date == [ord |-> now.ord + (i - 1), tod |-> now.tod]
               forecasted_temp == RAdd(current_temp, Int2Rat(noise[i].temp))
               forecasted_humidity ==
                 RMax(Int2Rat(40),
                      RMin(Int2Rat(95), RAdd(current_humidity, Int2Rat(noise[i].humidity))))
               rainfall_prob == _calculate_rainfall_probability(date, climate_zone)
           IN [date |-> Ord2Ymd(date.ord),
               temperature_celsius |-> Round(forecasted_temp, 1),
               humidity_percentage |-> Round(forecasted_humidity, 1),
               rainfall_probability |-> Round(rainfall_prob, 1),
               conditions |->
                 _determine_weather_conditions(forecasted_temp, forecasted_humidity,
                                               rainfall_prob)]]
  IN [location |-> location,
      climate_zone |-> climate_zone,
      forecast_days |-> forecast_days,
      summary |-> <<"7-day forecast for zone", climate_zone>>,
      farming_advice |-> _get_weather_farming_advice(forecast_days)]

----------------------------------------------------------------------------
(* Disease-Risk Analyzer                                                   *)

Rule(factor, points) == [factor |-> factor, points |-> points]

(* mutant: the cold-stress rule subtracts its 10 points                    *)
RiskRules_cold_subtracts(temp, humidity, soil_moisture, crop_type) ==
  (IF RLt(Int2Rat(80), humidity) /\ RLt(Int2Rat(20), temp) /\ RLt(temp, Int2Rat(30))
   THEN <<Rule(M_Fungal, 30)>> ELSE << >>)
  \o (IF RLt(Int2Rat(80), soil_moisture) THEN <<Rule(M_RootRot, 25)>> ELSE << >>)
  \o (IF RLt(soil_moisture, Int2Rat(20)) THEN <<Rule(M_Drought, 20)>> ELSE << >>)
  \o (IF RLt(Int2Rat(35), temp) THEN <<Rule(M_Heat, 15)>>
      ELSE IF RLt(temp, Int2Rat(15)) THEN <<Rule(M_Cold, 0 - 10)>>
      ELSE << >>)
  \o (IF crop_type = JStr(K_Rice)
      THEN (IF RLt(Int2Rat(85), humidity) THEN <<Rule(M_Blast, 20)>> ELSE << >>)
      ELSE IF crop_type = JStr(K_Tea)
      THEN (IF RLt(Int2Rat(32), temp) THEN <<Rule(M_Scorch, 15)>> ELSE << >>)
      ELSE << >>)

(* mutant: the fungal rule without its temperature band                    *)
RiskRules_fungal_any_temp(temp, humidity, soil_moisture, crop_type) ==
  (IF RLt(Int2Rat(80), humidity)
   THEN <<Rule(M_Fungal, 30)>> ELSE << >>)
  \o (IF RLt(Int2Rat(80), soil_moisture) THEN <<Rule(M_RootRot, 25)>> ELSE << >>)
  \o (IF RLt(soil_moisture, Int2Rat(20)) THEN <<Rule(M_Drought, 20)>> ELSE << >>)
  \o (IF RLt(Int2Rat(35), temp) THEN <<Rule(M_Heat, 15)>>
      ELSE IF RLt(temp, Int2Rat(15)) THEN <<Rule(M_Cold, 10)>>
      ELSE << >>)
  \o (IF crop_type = JStr(K_Rice)
      THEN (IF RLt(Int2Rat(85), humidity) THEN <<Rule(M_Blast, 20)>> ELSE << >>)
      ELSE IF crop_type = JStr(K_Tea)
      THEN (IF RLt(Int2Rat(32), temp) THEN <<Rule(M_Scorch, 15)>> ELSE << >>)
      ELSE << >>)

(* the rules that fire, in the order of the code, each with its increment  *)
RiskRules(temp, humidity, soil_moisture, crop_type) ==
  (IF RLt(Int2Rat(80), humidity) /\ RLt(Int2Rat(20), temp) /\ RLt(temp, Int2Rat(30))
   THEN <<Rule(M_Fungal, 30)>> ELSE << >>)
  \o (IF RLt(Int2Rat(80), soil_moisture) THEN <<Rule(M_RootRot, 25)>> ELSE << >>)
  \o (IF RLt(soil_moisture, Int2Rat(20)) THEN <<Rule(M_Drought, 20)>> ELSE << >>)
  \o (IF RLt(Int2Rat(35), temp) THEN <<Rule(M_Heat, 15)>>
      ELSE IF RLt(temp, Int2Rat(15)) THEN <<Rule(M_Cold, 10)>>
      ELSE << >>)
  \o (IF crop_type = JStr(K_Rice)
      THEN (IF RLt(Int2Rat(85), humidity) THEN <<Rule(M_Blast, 20)>> ELSE << >>)
      ELSE IF crop_type = JStr(K_Tea)
      THEN (IF RLt(Int2Rat(32), temp) THEN <<Rule(M_Scorch, 15)>> ELSE << >>)
      ELSE << >>)

(* the value of risk_level before min(100, risk_level)                     *)
RawRisk(rules) == Sum([i \in 1..Len(rules) |-> rules[i].points])

_get_prevention_measures(risk_factors, crop_type) ==
  LET measures(factor) ==
        (IF contains(K_fungal, lower(factor))
         THEN <<"Apply organic fungicide (neem oil solution)">> ELSE << >>)
        \o (IF contains(K_root_rot, lower(factor))
            THEN <<"Improve drainage and reduce irrigation frequency">> ELSE << >>)
        \o (IF contains(K_drought, lower(factor))
            THEN <<"Implement drip irrigation or mulching">> ELSE << >>)
        \o (IF contains(K_heat_stress, lower(factor))
            THEN <<"Provide shade netting during hottest hours">> ELSE << >>)
      RECURSIVE collect(_)
      collect(i) == IF i > Len(risk_factors) THEN << >>
                    ELSE measures(risk_factors[i]) \o collect(i + 1)
  IN collect(1)

_get_monitoring_advice(risk_level) ==
  IF risk_level < 30 THEN "Regular weekly monitoring is sufficient"
  ELSE IF risk_level < 60 THEN "Monitor twice weekly and watch for early symptoms"
  ELSE "Daily monitoring recommended - take immediate preventive action"

_assess_disease_risk(sensor_analysis, farm_config) ==
  LET temp == RGet(sensor_analysis, "average_temperature", Int2Rat(25))
      humidity == RGet(sensor_analysis, "average_humidity", Int2Rat(70))
      soil_moisture == RGet(sensor_analysis, "average_soil_moisture", Int2Rat(50))
      crop_type == Get(farm_config, "cropType", JStr(<< >>))
      rules == RiskRules(temp, humidity, soil_moisture, crop_type)
      risk_factors == [i \in 1..Len(rules) |-> rules[i].factor]
      risk_level == Min(100, RawRisk(rules))
  IN [overall_risk_level |-> risk_level,
      risk_category |-> IF risk_level < 30 THEN "Low"
                        ELSE IF risk_level < 60 THEN "Medium" ELSE "High",
      risk_factors |-> risk_factors,
      prevention_measures |-> _get_prevention_measures(risk_factors, crop_type),
      monitoring_advice |-> _get_monitoring_advice(risk_level)]

----------------------------------------------------------------------------
(* Recommendation Engine                                                   *)

Recommendation(category, priority, action, context) ==
  [category |-> category, priority |-> priority, action |-> action,
   sri_lankan_context |-> context]

(* mutant: the fertilization item is appended first, not last             *)
_generate_sri_lankan_recommendations_fertilization_first(farm_config, sensor_analysis, climate_analysis, monsoon_analysis) ==
  LET crop_type == Get(farm_config, "cropType", JStr(<< >>))
      current_temp == RGet(sensor_analysis, "average_temperature", Int2Rat(0))
      soil_moisture == RGet(sensor_analysis, "average_soil_moisture", Int2Rat(0))
  IN <<Recommendation("Fertilization", "Medium",
            "Apply organic fertilizer based on crop stage",
            "Use traditional compost with cattle manure and coconut coir")>>
     \o (IF /\ RGet(climate_analysis, "current_temperature_status", "") = "Outside range"
         /\ RLt(Int2Rat(RGet(climate_analysis, "optimal_temperature_range", <<0, 100>>)[2]),
                current_temp)
      THEN <<Recommendation("Temperature Management", "High",
               "Implement shade netting or mulching to reduce soil temperature",
               "Use coconut fronds or paddy straw as natural mulch")>>
      ELSE << >>)
     \o (IF RGet(monsoon_analysis, "is_peak_rainfall_period", FALSE)
         THEN <<Recommendation("Monsoon Management", "High",
                  "Ensure proper drainage to prevent waterlogging",
                  "Check bethma cultivation drainage systems")>>
         ELSE << >>)
     \o (IF crop_type = JStr(K_Rice) /\ RLt(soil_moisture, Int2Rat(60))
         THEN <<Recommendation("Irrigation", "High",
                  "Increase irrigation frequency for rice fields",
                  "Consider traditional kanna (bund) irrigation methods")>>
         ELSE << >>)
     \o (IF RLt(Int2Rat(85), soil_moisture)
         THEN <<Recommendation("Drainage", "Medium",
                  "Improve field drainage to prevent root diseases",
                  "Create traditional ela (drainage channels)")>>
         ELSE << >>)

_generate_sri_lankan_recommendations(farm_config, sensor_analysis, climate_analysis, monsoon_analysis) ==
  LET crop_type == Get(farm_config, "cropType", JStr(<< >>))
      current_temp == RGet(sensor_analysis, "average_temperature", Int2Rat(0))
      soil_moisture == RGet(sensor_analysis, "average_soil_moisture", Int2Rat(0))
  IN (IF /\ RGet(climate_analysis, "current_temperature_status", "") = "Outside range"
         /\ RLt(Int2Rat(RGet(climate_analysis, "optimal_temperature_range", <<0, 100>>)[2]),
                current_temp)
      THEN <<Recommendation("Temperature Management", "High",
               "Implement shade netting or mulching to reduce soil temperature",
               "Use coconut fronds or paddy straw as natural mulch")>>
      ELSE << >>)
     \o (IF RGet(monsoon_analysis, "is_peak_rainfall_period", FALSE)
         THEN <<Recommendation("Monsoon Management", "High",
                  "Ensure proper drainage to prevent waterlogging",
                  "Check bethma cultivation drainage systems")>>
         ELSE << >>)
     \o (IF crop_type = JStr(K_Rice) /\ RLt(soil_moisture, Int2Rat(60))
         THEN <<Recommendation("Irrigation", "High",
                  "Increase irrigation frequency for rice fields",
                  "Consider traditional kanna (bund) irrigation methods")>>
         ELSE << >>)
     \o (IF RLt(Int2Rat(85), soil_moisture)
         THEN <<Recommendation("Drainage", "Medium",
                  "Improve field drainage to prevent root diseases",
                  "Create traditional ela (drainage channels)")>>
         ELSE << >>)
     \o <<Recommendation("Fertilization", "Medium",
            "Apply organic fertilizer based on crop stage",
            "Use traditional compost with cattle manure and coconut coir")>>

Alert(type, message, action) == [type |-> type, message |-> message, action |-> action]

_generate_alerts(sensor_analysis, disease_risk, monsoon_analysis) ==
  LET temp == RGet(sensor_analysis, "average_temperature", Int2Rat(25))
  IN (IF RLt(Int2Rat(35), temp)
      THEN <<Alert("Warning", "Extreme heat detected - protect crops from heat stress",
                   "Increase irrigation and provide shade")>>
      ELSE << >>)
     \o (IF RGet(disease_risk, "overall_risk_level", 0) > 60
         THEN <<Alert("Alert", "High disease risk detected",
                      "Apply preventive treatments immediately")>>
         ELSE << >>)
     \o (IF RGet(monsoon_analysis, "is_peak_rainfall_period", FALSE)
         THEN <<Alert("Info", "Peak monsoon season - high rainfall expected",
                      "Ensure drainage systems are clear")>>
         ELSE << >>)

----------------------------------------------------------------------------
(* Report Assembler and the Flask routes                                   *)

(* the first call, in program order, that raised; << >> if none did        *)
FirstRaised(results) ==
  IF \E i \in 1..Len(results) : Raised(results[i])
  THEN results[CHOOSE i \in 1..Len(results) :
                 /\ Raised(results[i])
                 /\ \A j \in 1..(i-1) : ~Raised(results[j])]
  ELSE << >>

(* lines 171-187: the analysis dictionary assembled from the sections; an    *)
(* exception raised while a section was computed propagates instead         *)
analyze_farm_data_report(farm_config, now, sensor_analysis, climate_analysis, monsoon_analysis, crop_analysis, yield_prediction, harvest_forecast, weather_forecast, disease_risk) ==
  IF Raised(FirstRaised(<<climate_analysis, monsoon_analysis, crop_analysis,
                          yield_prediction, harvest_forecast>>))
  THEN FirstRaised(<<climate_analysis, monsoon_analysis, crop_analysis,
                     yield_prediction, harvest_forecast>>)
  ELSE
    [analysis_timestamp |-> now,
     farm_location |-> Get(farm_config, "location", JStr(<<"U","n","k","n","o","w","n">>)),
     climate_zone |-> Get(farm_config, "climateZone", JStr(<<"U","n","k","n","o","w","n">>)),
     current_conditions |-> sensor_analysis,
     climate_analysis |-> climate_analysis,
     monsoon_analysis |-> monsoon_analysis,
     crop_analysis |-> crop_analysis,
     yield_prediction |-> yield_prediction,
     harvest_forecast |-> harvest_forecast,
     weather_forecast |-> weather_forecast,
     disease_risk |-> disease_risk,
     recommendations |->
       _generate_sri_lankan_recommendations(farm_config, sensor_analysis,
                                            climate_analysis, monsoon_analysis),
     alerts |-> _generate_alerts(sensor_analysis, disease_risk, monsoon_analysis),
     country_context |-> "Sri Lanka"]

(* lines 157-168: the sections, each computed once from the sensor analysis *)
analyze_farm_data_sections(farm_config, now, noise, sensor_analysis) ==
  analyze_farm_data_report(
    farm_config, now, sensor_analysis,
    _analyze_climate_zone(farm_config, sensor_analysis),
    _analyze_monsoon_impact(now, farm_config),
    _analyze_crop_specific(farm_config, sensor_analysis, now),
    _predict_yield(farm_config, sensor_analysis),
    _forecast_harvest(farm_config, now),
    _forecast_weather(farm_config, sensor_analysis, now, noise),
    _assess_disease_risk(sensor_analysis, farm_config))

analyze_farm_data(sensor_data, farm_config, now, noise) ==
  analyze_farm_data_sections(farm_config, now, noise,
                             _analyze_sensor_data(sensor_data))

(* except Exception as e: ... 500                                          *)
ErrorResponse(e) == [http |-> 500, status |-> "error", message |-> e.raised]

analyze_farm_response(analysis) ==
  IF Raised(analysis) THEN ErrorResponse(analysis)
  ELSE [http |-> 200, status |-> "success", analysis |-> analysis,
        service |-> "Sri Lankan Agriculture AI"]

analyze_farm(sensor_data, farm_config, now, noise) ==
  analyze_farm_response(analyze_farm_data(sensor_data, farm_config, now, noise))

get_recommendations_response(farm_config, sensor_analysis, climate_analysis, monsoon_analysis) ==
  IF Raised(FirstRaised(<<climate_analysis, monsoon_analysis>>))
  THEN ErrorResponse(FirstRaised(<<climate_analysis, monsoon_analysis>>))
  ELSE [http |-> 200, status |-> "success",
        recommendations |->
          _generate_sri_lankan_recommendations(farm_config, sensor_analysis,
                                               climate_analysis, monsoon_analysis),
        service |-> "Sri Lankan Agriculture AI"]

get_recommendations_sections(farm_config, now, sensor_analysis) ==
  get_recommendations_response(
    farm_config, sensor_analysis,
    _analyze_climate_zone(farm_config, sensor_analysis),
    _analyze_monsoon_impact(now, farm_config))

get_recommendations(sensor_data, farm_config, now) ==
  get_recommendations_sections(farm_config, now, _analyze_sensor_data(sensor_data))

predict_yield_response(yield_prediction, harvest_forecast) ==
  IF Raised(FirstRaised(<<yield_prediction, harvest_forecast>>))
  THEN ErrorResponse(FirstRaised(<<yield_prediction, harvest_forecast>>))
  ELSE [http |-> 200, status |-> "success",
        yield_prediction |-> yield_prediction,
        harvest_forecast |-> harvest_forecast,
        service |-> "Sri Lankan Agriculture AI"]

predict_yield(sensor_data, farm_config, now) ==
  predict_yield_response(
    _predict_yield(farm_config, _analyze_sensor_data(sensor_data)),
    _forecast_harvest(farm_config, now))

----------------------------------------------------------------------------
(* Texts of the requests the model sends                                   *)

T_wet_zone == <<"w","e","t"," ","z","o","n","e">>

T_WetZonePadded == <<" ","W","e","t"," ","Z","o","n","e"," ">>

T_dry_zone == <<"d","r","y"," ","z","o","n","e">>

T_Mars == <<"M","a","r","s">>

T_rice == <<"r","i","c","e">>

T_tea == <<"t","e","a">>

T_RicePadded == <<" ","R","i","c","e"," ">>

T_bg352 == <<"b","g"," ","3","5","2">>

T_Samba == <<"S","a","m","b","a">>

T_Blank == <<" "," ">>

T_Yala == <<"Y","a","l","a">>

T_Maha == <<"M","a","h","a">>

T_MahaYala == <<"M","a","h","a","-","Y","a","l","a">>

T_YalaDate == <<"Y","a","l","a"," ","2","0","2","3","-","0","1","-","1","0">>

T_Date == <<"2","0","2","4","-","0","5","-","1","5">>

T_DatePadded == <<" ","2","0","2","4","-","0","5","-","1","5"," ">>

T_DateShort == <<"2","0","2","4","-","5","-","1">>

T_DateBad == <<"2","0","2","4","-","0","2","-","3","0">>

T_DateLast == <<"9","9","9","9","-","1","2","-","3","1">>

T_DateOld == <<"2","0","2","3","-","0","1","-","1","0">>

T_Date2021 == <<"2","0","2","1","-","0","8","-","1","5">>

T_Soon == <<"s","o","o","n">>

T_2 == <<"2">>

T_0 == <<"0">>

T_Minus1 == <<"-","1">>

T_abc == <<"a","b","c">>

T_2p5 == <<"2",".","5">>

T_NaNText == <<"N","a","N">>

T_3 == <<"3">>

----------------------------------------------------------------------------
(* Inputs                                                                  *)

Sample(t, h, m, ts) == [temperature |-> t, humidity |-> h, soil_moisture |-> m, timestamp |-> ts]

Samples == { Sample(JNum(32), JNum(88), JNum(75), 1),
             Sample(JNum(37), JNull, JNum(90), 2) }

SeqsUpTo(S, n) == UNION {[1..k -> S] : k \in 0..n}

SensorLists == SeqsUpTo(Samples, MaxSamples)

NoisePatterns ==
  { [i \in 1..ForecastDays |-> [temp |-> 0, humidity |-> 0]],
    [i \in 1..ForecastDays |-> [temp |-> IF i % 2 = 1 THEN 6 ELSE -6,
                                humidity |-> IF i % 3 = 0 THEN 40 ELSE -40]] }

Config(zone, crop, seed, date, size, acres) ==
  [location |-> JAbsent, climateZone |-> zone, cropType |-> crop,
   seedVariety |-> seed, plantingDate |-> date, fieldSize |-> size,
   field_size_acres |-> acres]

Strs(S) == {JStr(s) : s \in S}

ReqZones == {JAbsent, JNull} \cup Strs({K_WetZone, T_dry_zone})

ReqCrops == {JAbsent, JNull} \cup Strs({K_Rice, T_tea})

ReqSeeds == {JAbsent, JNull} \cup Strs({K_BG352})

ReqDates == {JAbsent, JNull} \cup Strs({T_Date, T_Yala, T_DateLast})

ReqSizes == {JNull} \cup Strs({T_2, T_abc})

ReqConfigs ==
  {Config(z, c, s, d, f, JAbsent) :
     z \in ReqZones, c \in ReqCrops, s \in ReqSeeds, d \in ReqDates, f \in ReqSizes}

(* /recommendations reads climateZone and cropType only                    *)
RecommendConfigs ==
  {Config(z, c, JAbsent, JAbsent, JAbsent, JAbsent) : z \in ReqZones, c \in ReqCrops}

(* the clock of the server: started in the afternoon of 2024-06-29         *)
StartTime == [ord |-> Ymd2Ord(2024, 6, 29), tod |-> 1]

TickDays == 75

----------------------------------------------------------------------------
(* The server                                                              *)
(* A request is handled in one step (the handlers are synchronous); the    *)
(* response is then sent and the request's values are discarded (Return)   *)
(* before the next request is taken.                                       *)

Idle == [op |-> "idle"]

NoReturn == [status |-> "none"]

Init ==
  /\ sri_lanka_data = _load_sri_lanka_agriculture_data
  /\ monsoon_patterns = _get_monsoon_patterns
  /\ current_time = StartTime
  /\ ticks = 0
  /\ call = Idle
  /\ ret = NoReturn

Tick ==
  /\ call = Idle
  /\ ticks < MaxTicks
  /\ ticks' = ticks + 1
  /\ current_time' = [current_time EXCEPT !.ord = @ + TickDays]
  /\ UNCHANGED <<sri_lanka_data, monsoon_patterns, call, ret>>

(* mutant: the handler pops the first crop off the shared crop table      *)
Analyze_pops_crop_table ==
  /\ call = Idle
  /\ \E sensor_data \in SensorLists, farm_config \in ReqConfigs, noise \in NoisePatterns :
       /\ call' = [op |-> "/analyze", sensor_data |-> sensor_data,
                   farm_config |-> farm_config, noise |-> noise]
       /\ ret' = analyze_farm(sensor_data, farm_config, current_time, noise)
  /\ sri_lanka_data' = [sri_lanka_data EXCEPT !.crop_varieties = Tail(@)]
  /\ UNCHANGED <<monsoon_patterns, current_time, ticks>>

Analyze ==
  /\ call = Idle
  /\ \E sensor_data \in SensorLists, farm_config \in ReqConfigs, noise \in NoisePatterns :
       /\ call' = [op |-> "/analyze", sensor_data |-> sensor_data,
                   farm_config |-> farm_config, noise |-> noise]
       /\ ret' = analyze_farm(sensor_data, farm_config, current_time, noise)
  /\ UNCHANGED <<sri_lanka_data, monsoon_patterns, current_time, ticks>>

Recommend ==
  /\ call = Idle
  /\ \E sensor_data \in SensorLists, farm_config \in RecommendConfigs :
       /\ call' = [op |-> "/recommendations", sensor_data |-> sensor_data,
                   farm_config |-> farm_config]
       /\ ret' = get_recommendations(sensor_data, farm_config, current_time)
  /\ UNCHANGED <<sri_lanka_data, monsoon_patterns, current_time, ticks>>

(* mutant: the handler stores the request's zone in a monsoon pattern     *)
Predict_edits_monsoon_patterns ==
  /\ call = Idle
  /\ \E sensor_data \in SensorLists, farm_config \in ReqConfigs :
       /\ call' = [op |-> "/predict", sensor_data |-> sensor_data,
                   farm_config |-> farm_config]
       /\ ret' = predict_yield(sensor_data, farm_config, current_time)
       /\ monsoon_patterns' =
            [monsoon_patterns EXCEPT ![1].v.affected_zones = Append(@, farm_config.climateZone.s)]
  /\ UNCHANGED <<sri_lanka_data, current_time, ticks>>

Predict ==
  /\ call = Idle
  /\ \E sensor_data \in SensorLists, farm_config \in ReqConfigs :
       /\ call' = [op |-> "/predict", sensor_data |-> sensor_data,
                   farm_config |-> farm_config]
       /\ ret' = predict_yield(sensor_data, farm_config, current_time)
  /\ UNCHANGED <<sri_lanka_data, monsoon_patterns, current_time, ticks>>

Return ==
  /\ call # Idle
  /\ call' = Idle
  /\ ret' = NoReturn
  /\ UNCHANGED <<sri_lanka_data, monsoon_patterns, current_time, ticks>>

Next == Tick \/ Analyze \/ Recommend \/ Predict \/ Return

Spec == Init /\ [][Next]_vars

----------------------------------------------------------------------------
(* Direct calls of the methods of SriLankanAgricultureAI, each with        *)
(* arguments drawn from the sets below                                     *)

Aggregate(t, h, m) ==
  [average_temperature |-> t, average_humidity |-> h, average_soil_moisture |-> m,
   temperature_range |-> <<t, t>>, data_points |-> 1, last_reading |-> 1]

AggTemps == {Int2Rat(10), Int2Rat(15), Int2Rat(20), Rat(41, 2), Int2Rat(25), Rat(59, 2),
             Int2Rat(30), Int2Rat(32), Int2Rat(33), Int2Rat(35), Int2Rat(36)}

AggHumidities == {Int2Rat(70), Int2Rat(80), Int2Rat(81), Int2Rat(85), Rat(171, 2),
                  Int2Rat(86), Int2Rat(90)}

AggMoistures == {Int2Rat(10), Int2Rat(19), Int2Rat(20), Int2Rat(50), Int2Rat(80),
                 Int2Rat(81), Int2Rat(90)}

Aggregates ==
  {NoSensorData} \cup
  {Aggregate(t, h, m) : t \in AggTemps, h \in AggHumidities, m \in AggMoistures}

ClimateAggregates ==
  {NoSensorData} \cup
  {Aggregate(t, h, Int2Rat(50)) : t \in AggTemps, h \in AggHumidities}

YieldAggregates ==
  {NoSensorData, Aggregate(Int2Rat(25), Int2Rat(80), Int2Rat(50)),
   Aggregate(Int2Rat(32), Int2Rat(88), Int2Rat(75)),
   Aggregate(Rat(41, 2), Int2Rat(70), Int2Rat(10))}

CallZones ==
  {JAbsent, JNull} \cup
  Strs({<< >>, T_Blank, K_WetZone, T_wet_zone, T_WetZonePadded, K_DryZone, T_dry_zone,
        K_IntermediateZone, T_Mars})

CallCrops ==
  {JAbsent, JNull} \cup
  Strs({<< >>, T_Blank, K_Rice, T_rice, T_RicePadded, K_Tea, K_Coconut, K_Maize})

CallSeeds == {JAbsent, JNull} \cup Strs({<< >>, K_BG352, T_bg352, T_Samba, K_TRI2025, K_Dwarf})

CallSizes ==
  {JAbsent, JNull, JNum(2), JNum(0), JNum(-1)} \cup
  Strs({<< >>, T_2, T_0, T_Minus1, T_abc, T_2p5, T_NaNText})

CallDates ==
  {JAbsent, JNull} \cup
  Strs({<< >>, T_Blank, T_Yala, T_Maha, T_MahaYala, T_YalaDate, T_Date, T_DatePadded,
        T_DateShort, T_DateBad, T_DateLast, T_DateOld, T_Date2021, T_Soon})

CallTimes ==
  { [ord |-> Ymd2Ord(2024, 5, 15), tod |-> 0],
    [ord |-> Ymd2Ord(2024, 5, 15), tod |-> 1],
    [ord |-> Ymd2Ord(2024, 7, 4), tod |-> 1],
    [ord |-> Ymd2Ord(2024, 8, 28), tod |-> 0],
    [ord |-> Ymd2Ord(2024, 8, 28), tod |-> 1],
    [ord |-> Ymd2Ord(2024, 12, 25), tod |-> 1],
    [ord |-> Ymd2Ord(2023, 1, 2), tod |-> 1] }

Frame == UNCHANGED <<sri_lanka_data, monsoon_patterns, current_time, ticks>>

CallTemperatureFactor ==
  /\ call = Idle
  /\ \E k \in (0 - 2 * MaxTemp)..(2 * MaxTemp) :
       /\ call' = [op |-> "_calculate_temperature_factor", temp |-> Rat(k, 2)]
       /\ ret' = _calculate_temperature_factor(Rat(k, 2))
  /\ Frame

CallMoistureFactor ==
  /\ call = Idle
  /\ \E k \in 0..(2 * MaxMoisture) :
       /\ call' = [op |-> "_calculate_moisture_factor", moisture |-> Rat(k, 2)]
       /\ ret' = _calculate_moisture_factor(Rat(k, 2))
  /\ Frame

CallAnalyzeClimateZone ==
  /\ call = Idle
  /\ \E zone \in CallZones, sensor_analysis \in ClimateAggregates :
       LET farm_config == Config(zone, JAbsent, JAbsent, JAbsent, JAbsent, JAbsent)
       IN /\ call' = [op |-> "_analyze_climate_zone", farm_config |-> farm_config,
                      sensor_analysis |-> sensor_analysis]
          /\ ret' = _analyze_climate_zone(farm_config, sensor_analysis)
  /\ Frame

CallAssessDiseaseRisk ==
  /\ call = Idle
  /\ \E crop \in CallCrops, sensor_analysis \in Aggregates :
       LET farm_config == Config(JAbsent, crop, JAbsent, JAbsent, JAbsent, JAbsent)
       IN /\ call' = [op |-> "_assess_disease_risk", farm_config |-> farm_config,
                      sensor_analysis |-> sensor_analysis]
          /\ ret' = _assess_disease_risk(sensor_analysis, farm_config)
  /\ Frame

CallPredictYield ==
  /\ call = Idle
  /\ \E zone \in {JAbsent, JStr(K_WetZone), JStr(T_wet_zone)}, crop \in CallCrops,
        seed \in CallSeeds, size \in CallSizes, acres \in {JAbsent, JStr(T_3)},
        sensor_analysis \in YieldAggregates :
       LET farm_config == Config(zone, crop, seed, JAbsent, size, acres)
       IN /\ size # JAbsent => acres = JAbsent
          /\ call' = [op |-> "_predict_yield", farm_config |-> farm_config,
                      sensor_analysis |-> sensor_analysis]
          /\ ret' = _predict_yield(farm_config, sensor_analysis)
  /\ Frame

HarvestSeeds == {JAbsent} \cup Strs({K_H4})

CallForecastHarvest ==
  /\ call = Idle
  /\ \E crop \in CallCrops, seed \in HarvestSeeds, date \in CallDates, now \in CallTimes :
       LET farm_config == Config(JAbsent, crop, seed, date, JAbsent, JAbsent)
       IN /\ call' = [op |-> "_forecast_harvest", farm_config |-> farm_config, now |-> now]
          /\ ret' = _forecast_harvest(farm_config, now)
  /\ Frame

CropSeeds == {JAbsent} \cup Strs({K_BG352, T_bg352})

CropDates == {JAbsent} \cup Strs({T_Date, T_Soon})

CropAggregates == {NoSensorData, Aggregate(Int2Rat(25), Int2Rat(80), Int2Rat(50))}

CallAnalyzeCropSpecific ==
  /\ call = Idle
  /\ \E crop \in CallCrops, seed \in CropSeeds, date \in CropDates,
        sensor_analysis \in CropAggregates, now \in CallTimes :
       LET farm_config == Config(JAbsent, crop, seed, date, JAbsent, JAbsent)
       IN /\ call' = [op |-> "_analyze_crop_specific", farm_config |-> farm_config,
                      sensor_analysis |-> sensor_analysis, now |-> now]
          /\ ret' = _analyze_crop_specific(farm_config, sensor_analysis, now)
  /\ Frame

RecZones == Strs({<< >>, K_WetZone, T_wet_zone, K_DryZone, T_Mars})

RecAggregates ==
  {NoSensorData} \cup
  {Aggregate(x, Int2Rat(80), m) : x \in {Int2Rat(25), Int2Rat(32), Int2Rat(36)},
                                   m \in {Int2Rat(10), Int2Rat(60), Int2Rat(85), Int2Rat(90)}}

RecTimes == { [ord |-> Ymd2Ord(2024, 7, 4), tod |-> 1],
              [ord |-> Ymd2Ord(2024, 12, 25), tod |-> 1],
              [ord |-> Ymd2Ord(2024, 4, 2), tod |-> 1] }

(* the engine is called with the results of the climate-zone and monsoon   *)
(* analyzers for the same farm_config (lines 157-158 and 949-951)          *)
CallGenerateRecommendations ==
  /\ call = Idle
  /\ \E zone \in RecZones, crop \in CallCrops, sensor_analysis \in RecAggregates,
        now \in RecTimes :
       LET farm_config == Config(zone, crop, JAbsent, JAbsent, JAbsent, JAbsent)
           climate_analysis == _analyze_climate_zone(farm_config, sensor_analysis)
           monsoon_analysis == _analyze_monsoon_impact(now, farm_config)
       IN /\ call' = [op |-> "_generate_sri_lankan_recommendations",
                      farm_config |-> farm_config, sensor_analysis |-> sensor_analysis,
                      climate_analysis |-> climate_analysis,
                      monsoon_analysis |-> monsoon_analysis]
          /\ ret' = _generate_sri_lankan_recommendations(
                      farm_config, sensor_analysis, climate_analysis, monsoon_analysis)
  /\ Frame

MonsoonZones == CallZones \cup Strs({K_EasternProvince})

(* one clock reading in each calendar month                                *)
MonsoonTimes == { [ord |-> Ymd2Ord(2024, m, 10), tod |-> 1] : m \in 1..12 }

CallAnalyzeMonsoonImpact ==
  /\ call = Idle
  /\ \E zone \in MonsoonZones, now \in MonsoonTimes :
       LET farm_config == Config(zone, JAbsent, JAbsent, JAbsent, JAbsent, JAbsent)
       IN /\ call' = [op |-> "_analyze_monsoon_impact", farm_config |-> farm_config,
                      now |-> now]
          /\ ret' = _analyze_monsoon_impact(now, farm_config)
  /\ Frame

GrowthDates == Strs({<< >>, T_Blank, T_Yala, T_Maha, T_MahaYala, T_YalaDate, T_Date, T_DatePadded,
                     T_DateShort, T_DateBad, T_DateLast, T_DateOld, T_Soon})

CallCalculateGrowthStage ==
  /\ call = Idle
  /\ \E crop \in Strs({K_Rice, K_Tea}), date \in GrowthDates, now \in CallTimes :
       LET farm_config == Config(JAbsent, crop, JAbsent, date, JAbsent, JAbsent)
       IN /\ call' = [op |-> "_calculate_growth_stage", farm_config |-> farm_config, now |-> now]
          /\ ret' = _calculate_growth_stage(farm_config, now)
  /\ Frame

WeatherZones ==
  {JAbsent} \cup Strs({<< >>, K_WetZone, T_wet_zone, K_DryZone, K_IntermediateZone, T_Mars})

WeatherAggregates ==
  {NoSensorData} \cup
  {Aggregate(t, h, Int2Rat(50)) : t \in {Int2Rat(25), Int2Rat(36)},
                                  h \in {Int2Rat(20), Int2Rat(75), Int2Rat(99)}}

WeatherTimes == { [ord |-> Ymd2Ord(2024, m, 28), tod |-> 1] : m \in 1..12 }

CallForecastWeather ==
  /\ call = Idle
  /\ \E zone \in WeatherZones, sensor_analysis \in WeatherAggregates,
        now \in WeatherTimes, noise \in NoisePatterns :
       LET farm_config == Config(zone, JAbsent, JAbsent, JAbsent, JAbsent, JAbsent)
       IN /\ call' = [op |-> "_forecast_weather", farm_config |-> farm_config,
                      sensor_analysis |-> sensor_analysis, now |-> now, noise |-> noise]
          /\ ret' = _forecast_weather(farm_config, sensor_analysis, now, noise)
  /\ Frame

RiskSamples ==
  { Sample(JNum(x), JNum(h), JNum(m), 1) : x \in {25, 36}, h \in {82, 90}, m \in {10, 50, 85} }

RiskSensorLists == {<< >>} \cup {<<s>> : s \in RiskSamples}

RiskTimes == { [ord |-> Ymd2Ord(2024, 7, 4), tod |-> 1],
               [ord |-> Ymd2Ord(2024, 4, 2), tod |-> 1] }

CallAnalyzeFarmData ==
  /\ call = Idle
  /\ \E sensor_data \in RiskSensorLists, crop \in {JAbsent} \cup Strs({K_Rice, K_Tea}),
        now \in RiskTimes, noise \in NoisePatterns :
       LET farm_config == Config(JStr(K_WetZone), crop, JAbsent, JAbsent, JAbsent, JAbsent)
       IN /\ call' = [op |-> "analyze_farm_data", sensor_data |-> sensor_data,
                      farm_config |-> farm_config, now |-> now, noise |-> noise]
          /\ ret' = analyze_farm_data(sensor_data, farm_config, now, noise)
  /\ Frame

NextCalls ==
  \/ CallTemperatureFactor
  \/ CallMoistureFactor
  \/ CallAnalyzeClimateZone
  \/ CallAssessDiseaseRisk
  \/ CallPredictYield
  \/ CallForecastHarvest
  \/ CallAnalyzeCropSpecific
  \/ CallGenerateRecommendations
  \/ CallAnalyzeMonsoonImpact
  \/ CallCalculateGrowthStage
  \/ CallForecastWeather
  \/ CallAnalyzeFarmData
  \/ Return

SpecCalls == Init /\ [][NextCalls]_vars

----------------------------------------------------------------------------
(* Properties                                                              *)

StrOrAbsent(v) == v.t \in {"str", "absent"}

IsErrorStatus(r) ==
  /\ ~Raised(r)
  /\ "status" \in DOMAIN r
  /\ "predicted_yield_per_acre" \notin DOMAIN r
  /\ "total_predicted_yield" \notin DOMAIN r

(* text that is a decimal numeral: blanks, a sign, digits, a point *)
IsNumeral(s) ==
  LET t == strip(s)
      body == IF Len(t) > 0 /\ t[1] \in {"+", "-"} THEN SubSeq(t, 2, Len(t)) ELSE t
  IN Len(body) > 0 /\ UnsignedDecimal(body)

(* C1: whatever the farm_config fields are (absent, null, any text) and    *)
(* whatever the sensor_data list, /analyze gets a report from              *)
(* analyze_farm_data: no exception reaches the route's except clause.      *)
C1_AnalyzeNeverRaises ==
  call.op = "/analyze" => (ret.http = 200 /\ "analysis" \in DOMAIN ret)

(* C2: _predict_yield returns an error status, without yield fields, when  *)
(* cropType is empty, or fieldSize is a number <= 0, or fieldSize is text  *)
(* that is not a number, whatever the other fields and the aggregate.      *)
C2_YieldRejected ==
  LET cfg == call.farm_config
      crop == Get(cfg, "cropType", JStr(<< >>))
      size == cfg.fieldSize
  IN (/\ call.op = "_predict_yield"
      /\ \/ (crop.t = "str" /\ Len(crop.s) = 0)
         \/ (size.t = "num" /\ size.v <= 0)
         \/ (size.t = "str" /\ ~IsNumeral(size.s)))
     => IsErrorStatus(ret)

(* C3: for 20 <= t <= 30 the temperature factor lies in [1.0, 1.1] and is  *)
(* nowhere on that interval larger than at t = 25.                         *)
C3_TemperatureFactorRange ==
  (/\ call.op = "_calculate_temperature_factor"
   /\ RLe(Int2Rat(20), call.temp)
   /\ RLe(call.temp, Int2Rat(30)))
  => /\ RLe(Int2Rat(1), ret)
     /\ RLe(ret, Rat(11, 10))
     /\ RLe(ret, _calculate_temperature_factor(Int2Rat(25)))

(* C4: the moisture factor is exactly 1.2 for 40 <= m <= 70; for m > 70    *)
(* it is at least 0.7 and no larger moisture gives a larger factor.        *)
C4_MoistureFactor ==
  call.op = "_calculate_moisture_factor" =>
    LET m == call.moisture
    IN /\ (RLe(Int2Rat(40), m) /\ RLe(m, Int2Rat(70))) => ret = Rat(12, 10)
       /\ RLt(Int2Rat(70), m) =>
            /\ RLe(Rat(7, 10), ret)
            /\ \A k \in 0..(2 * MaxMoisture) :
                 RLe(m, Rat(k, 2)) => RLe(_calculate_moisture_factor(Rat(k, 2)), ret)

C4_Witness ==
  /\ call.op = "_calculate_moisture_factor"
  /\ RLt(Int2Rat(100), call.moisture)
  /\ ret = Rat(7, 10)

(* C5: the overall_risk_level of _assess_disease_risk is an integer        *)
(* between 0 and 100, for every aggregate and every crop type.             *)
C5_RiskLevelRange ==
  call.op = "_assess_disease_risk" => ret.overall_risk_level \in 0..100

C5_Witness ==
  /\ call.op = "_assess_disease_risk"
  /\ ret.overall_risk_level = 10
  /\ ret.risk_factors = <<M_Cold>>

CallRiskRules ==
  RiskRules(RGet(call.sensor_analysis, "average_temperature", Int2Rat(25)),
            RGet(call.sensor_analysis, "average_humidity", Int2Rat(70)),
            RGet(call.sensor_analysis, "average_soil_moisture", Int2Rat(50)),
            Get(call.farm_config, "cropType", JStr(<< >>)))

(* C6 as stated: some input makes the uncapped sum of the increments of    *)
(* the rules that fire exceed 100, so that the cap changes the score.      *)
C6_SomeInputExceedsCap ==
  call.op = "_assess_disease_risk" =>
    \E t \in AggTemps, h \in AggHumidities, m \in AggMoistures, c \in CallCrops :
      /\ RawRisk(RiskRules(t, h, m, c)) > 100
      /\ Min(100, RawRisk(RiskRules(t, h, m, c))) # RawRisk(RiskRules(t, h, m, c))

(* C6 amended: on every input the uncapped sum of the increments is at     *)
(* most 75 and the returned score equals it; the cap never changes it.     *)
C6_RawRiskAtMost75 ==
  call.op = "_assess_disease_risk" =>
    /\ RawRisk(CallRiskRules) <= 75
    /\ ret.overall_risk_level = RawRisk(CallRiskRules)

C6_Witness ==
  /\ call.op = "_assess_disease_risk"
  /\ RawRisk(CallRiskRules) = 75
  /\ ret.risk_factors = <<M_Fungal, M_RootRot, M_Blast>>

(* C7: in _forecast_harvest with a known crop, a plantingDate text whose   *)
(* lower-cased form contains "yala" resolves to May 15 of the current      *)
(* year, whatever else the text contains.                                  *)
C7_YalaWins ==
  LET cfg == call.farm_config
  IN (/\ call.op = "_forecast_harvest"
      /\ cfg.cropType.t = "str"
      /\ Len(CropData(strip(cfg.cropType.s))) > 0
      /\ cfg.plantingDate.t = "str"
      /\ contains(K_yala, lower(cfg.plantingDate.s)))
     => /\ "planting_date" \in DOMAIN ret
        /\ ret.planting_date = [y |-> Year(call.now), m |-> 5, d |-> 15]

C7_Witness ==
  /\ call.op = "_forecast_harvest"
  /\ call.farm_config.plantingDate = JStr(T_MahaYala)
  /\ "planting_date" \in DOMAIN ret
  /\ ret.planting_date.m = 5

WithoutLabel(r) == [f \in (DOMAIN r) \ {"climate_zone"} |-> r[f]]

(* C8: _analyze_climate_zone gives, for a climateZone that differs from a  *)
(* table key only in letter case, the result it gives for the key itself,  *)
(* the climate_zone label aside.                                           *)
C8_ZoneCaseInsensitive ==
  LET zone == call.farm_config.climateZone
      keys == DictKeys(sri_lanka_data.climate_zones)
  IN call.op = "_analyze_climate_zone" /\ zone.t = "str" =>
       \A i \in 1..Len(keys) :
         (lower(keys[i]) = lower(zone.s) /\ keys[i] # zone.s) =>
           WithoutLabel(ret) =
             WithoutLabel(_analyze_climate_zone(
               [call.farm_config EXCEPT !.climateZone = JStr(keys[i])],
               call.sensor_analysis))

C8_Witness ==
  /\ call.op = "_analyze_climate_zone"
  /\ call.farm_config.climateZone = JStr(T_wet_zone)
  /\ "current_temperature_status" \in DOMAIN ret
  /\ ret.current_temperature_status = "Optimal"

ScenarioSensorData == <<Sample(JNum(32), JNum(88), JNum(75), 1)>>

ScenarioConfig ==
  Config(JStr(K_WetZone), JStr(K_Rice), JStr(K_BG352), JStr(T_Date), JStr(T_2), JAbsent)

(* C9: for the scenario request (one sample 32 / 88 / 75, Wet Zone, Rice,  *)
(* BG 352, fieldSize "2", planted 2024-05-15) the yield prediction is for  *)
(* Rice with base yield 4.5 per acre, the rice-blast rule fires with its   *)
(* 20 points and the generic fungal rule does not fire.                    *)
C9_Scenario ==
  (/\ call.op = "/analyze"
   /\ call.sensor_data = ScenarioSensorData
   /\ call.farm_config = ScenarioConfig)
  => /\ ret.http = 200
     /\ ret.analysis.yield_prediction.crop_type = K_Rice
     /\ ret.analysis.yield_prediction.base_yield_per_acre = Rat(45, 10)
     /\ InList(M_Blast, ret.analysis.disease_risk.risk_factors)
     /\ ~InList(M_Fungal, ret.analysis.disease_risk.risk_factors)
     /\ ret.analysis.disease_risk.overall_risk_level = 20

C9_Witness ==
  /\ call.op = "/analyze"
  /\ call.sensor_data = ScenarioSensorData
  /\ call.farm_config = ScenarioConfig
  /\ ret.http = 200
  /\ ret.analysis.disease_risk.risk_factors = <<M_Blast>>

(* C10: with an empty sensor_data list and a farm_config whose fields are  *)
(* all text (or missing), /analyze reports current_conditions "No sensor   *)
(* data available" and every analyzer returns: nothing is raised.          *)
C10_EmptySensorData ==
  LET cfg == call.farm_config
  IN (/\ call.op = "/analyze"
      /\ call.sensor_data = << >>
      /\ \A f \in DOMAIN cfg : StrOrAbsent(cfg[f]))
     => /\ ret.http = 200
        /\ ret.analysis.current_conditions = NoSensorData


(* the report without what the two np.random.normal draws of a forecast    *)
(* day decide: its temperature, its humidity, the condition label and the  *)
(* advice counted from the hot days                                        *)
StableDay(d) ==
  [f \in (DOMAIN d) \ {"temperature_celsius", "humidity_percentage", "conditions"} |-> d[f]]

StableWeather(w) ==
  [w EXCEPT !.forecast_days = [i \in DOMAIN @ |-> StableDay(@[i])],
            !.farming_advice = << >>]

StableResponse(r) ==
  IF "analysis" \in DOMAIN r
  THEN [r EXCEPT !.analysis.weather_forecast = StableWeather(@)]
  ELSE r

(* C11: after any sequence of earlier requests, running the analysis once  *)
(* more with the farm_config, the sensor_data and the clock reading of the *)
(* request just answered gives, for every outcome of the random draws, the *)
(* same response in every field but the forecast's temperature, humidity   *)
(* and what is derived from them.                                          *)
C11_RepeatIsIdentical ==
  call.op = "/analyze" =>
    \A noise \in NoisePatterns \ {call.noise} :
      StableResponse(analyze_farm(call.sensor_data, call.farm_config, current_time, noise))
        = StableResponse(ret)

C11_Witness ==
  /\ call.op = "/analyze"
  /\ ticks = 1
  /\ ret.http = 200
  /\ \E noise \in NoisePatterns :
       analyze_farm(call.sensor_data, call.farm_config, current_time, noise).analysis.weather_forecast
         # ret.analysis.weather_forecast

(* C12: after any sequence of /analyze, /recommendations and /predict      *)
(* requests the tables of ai_system are the tables built at start-up, and  *)
(* every climate zone's rainfall_mm has exactly 12 entries.                *)
C12_TablesNeverChange ==
  /\ sri_lanka_data = _load_sri_lanka_agriculture_data
  /\ monsoon_patterns = _get_monsoon_patterns
  /\ \A i \in 1..Len(sri_lanka_data.climate_zones) :
       Len(sri_lanka_data.climate_zones[i].v.rainfall_mm) = 12

C12_Witness ==
  /\ call.op = "/predict"
  /\ ticks = 1
  /\ ret.http = 200
  /\ sri_lanka_data = _load_sri_lanka_agriculture_data


Analyzers ==
  {"_analyze_climate_zone", "_analyze_crop_specific", "_predict_yield", "_forecast_harvest"}

(* C13: every error-status result of the climate-zone analyzer, the crop-  *)
(* specific analyzer, the yield predictor and the harvest forecaster has   *)
(* a status, a message and the list of the required fields.                *)
C13_ErrorResultsStructured ==
  (/\ call.op \in Analyzers
   /\ ~Raised(ret)
   /\ "status" \in DOMAIN ret)
  => /\ "message" \in DOMAIN ret
     /\ "required_fields" \in DOMAIN ret


CategoryOrder ==
  <<"Temperature Management", "Monsoon Management", "Irrigation", "Drainage", "Fertilization">>

CategoryIndex(c) == CHOOSE i \in 1..Len(CategoryOrder) : CategoryOrder[i] = c

(* C14: the list of _generate_sri_lankan_recommendations is a sub-list of  *)
(* Temperature Management, Monsoon Management, Irrigation, Drainage,       *)
(* Fertilization in that order, each category at most once; it is never    *)
(* empty and ends with the Fertilization item, also for an unresolved-zone *)
(* climate_analysis and for the no-data sensor aggregate.                  *)
C14_RecommendationOrder ==
  call.op = "_generate_sri_lankan_recommendations" =>
    /\ Len(ret) > 0
    /\ \A i \in 1..Len(ret) : InList(ret[i].category, CategoryOrder)
    /\ \A i \in 1..(Len(ret) - 1) :
         CategoryIndex(ret[i].category) < CategoryIndex(ret[i + 1].category)
    /\ ret[Len(ret)].category = "Fertilization"

C14_Witness ==
  /\ call.op = "_generate_sri_lankan_recommendations"
  /\ "status" \in DOMAIN call.climate_analysis
  /\ call.sensor_analysis = NoSensorData
  /\ Len(ret) = 2
  /\ ret[1].category = "Irrigation"

C14_WitnessFull ==
  /\ call.op = "_generate_sri_lankan_recommendations"
  /\ Len(ret) = 4
  /\ ret[1].category = "Temperature Management"


(* the pattern's affected-zone set is empty, or holds the zone, exactly or *)
(* ignoring case                                                           *)
AffectsZone(pattern, zone) ==
  \/ "affected_zones" \notin DOMAIN pattern
  \/ Len(pattern.affected_zones) = 0
  \/ \E i \in 1..Len(pattern.affected_zones) :
       \/ pattern.affected_zones[i] = zone
       \/ lower(pattern.affected_zones[i]) = lower(zone)

(* C15: for every month and every climateZone text (taken without its      *)
(* surrounding whitespace, as the result echoes it) a monsoon is listed as *)
(* active exactly when the month is in its month set and its affected-zone *)
(* set is empty or holds the zone, exactly or ignoring case; the peak flag *)
(* is set exactly when the month is in the peak-rainfall set of an active  *)
(* monsoon; the rainfall level is High with the peak flag, else Medium     *)
(* with an active monsoon, else Low.                                       *)
C15_MonsoonImpact ==
  (call.op = "_analyze_monsoon_impact" /\ ~Raised(ret)) =>
    LET month == Month(call.now)
        zone == ret.climate_zone
        IsActive(i) ==
          /\ InList(month, monsoon_patterns[i].v.months)
          /\ AffectsZone(monsoon_patterns[i].v, zone)
        peak ==
          \E i \in 1..Len(monsoon_patterns) :
            /\ IsActive(i)
            /\ "peak_rainfall" \in DOMAIN monsoon_patterns[i].v
            /\ InList(month, monsoon_patterns[i].v.peak_rainfall)
    IN /\ zone = strip(Get(call.farm_config, "climateZone", JStr(<< >>)).s)
       /\ \A i \in 1..Len(monsoon_patterns) :
            InList(monsoon_patterns[i].k, ret.active_monsoons) <=> IsActive(i)
       /\ \A j \in 1..Len(ret.active_monsoons) :
            \E i \in 1..Len(monsoon_patterns) : monsoon_patterns[i].k = ret.active_monsoons[j]
       /\ ret.is_peak_rainfall_period = peak
       /\ ret.is_peak_rainfall_period => Len(ret.active_monsoons) > 0
       /\ ret.expected_rainfall_level =
            (IF ret.is_peak_rainfall_period THEN "High"
             ELSE IF Len(ret.active_monsoons) > 0 THEN "Medium" ELSE "Low")

C15_Witness ==
  /\ call.op = "_analyze_monsoon_impact"
  /\ call.farm_config.climateZone = JStr(T_dry_zone)
  /\ ret.active_monsoons = <<"Northeast Monsoon">>
  /\ ret.is_peak_rainfall_period
  /\ ret.expected_rainfall_level = "High"


(* yield_per_acre of the variety with the exact key, else of the first     *)
(* variety whose key matches ignoring case, else the mean over the crop    *)
ExpectedBaseYield(crop_data, seed) ==
  LET yield(i) == RGet(crop_data[i].v, "yield_per_acre", Int2Rat(0))
      exact == {i \in 1..Len(crop_data) : crop_data[i].k = seed}
      loose == {i \in 1..Len(crop_data) : lower(crop_data[i].k) = lower(seed)}
  IN IF exact # {} THEN yield(CHOOSE i \in exact : TRUE)
     ELSE IF loose # {} THEN yield(CHOOSE i \in loose : \A j \in loose : i <= j)
     ELSE RDivInt(RSum([i \in 1..Len(crop_data) |-> yield(i)]), Len(crop_data))

(* the mean of the temperature, moisture and climate factors of a call     *)
MeanFactor(farm_config, sensor_analysis) ==
  RDivInt(
    RAdd(RAdd(_calculate_temperature_factor(
                RGet(sensor_analysis, "average_temperature", Int2Rat(25))),
              _calculate_moisture_factor(
                RGet(sensor_analysis, "average_soil_moisture", Int2Rat(50)))),
         _calculate_climate_factor(farm_config)),
    3)

(* C16: in a prediction of _predict_yield (resolved crop, positive field   *)
(* size) the base yield per acre is that of the variety found by exact     *)
(* key, else ignoring case, else the mean over the varieties of the crop;  *)
(* the predicted yield per acre is the base times the mean of the three    *)
(* factors and the total is that times the field size (each reported       *)
(* rounded to 2 decimals).                                                 *)
C16_YieldFormula ==
  (/\ call.op = "_predict_yield"
   /\ ~Raised(ret)
   /\ "base_yield_per_acre" \in DOMAIN ret)
  => LET crops == sri_lanka_data.crop_varieties
         base == ExpectedBaseYield(DictGet(crops, ret.crop_type), ret.seed_variety)
         per_acre == RMul(base, MeanFactor(call.farm_config, call.sensor_analysis))
         size == ret.field_size_acres
     IN /\ DictHas(crops, ret.crop_type)
        /\ ret.seed_variety = strip(Get(call.farm_config, "seedVariety", JStr(<< >>)).s)
        /\ ret.base_yield_per_acre = Round(base, 2)
        /\ ret.predicted_yield_per_acre = Round(per_acre, 2)
        /\ size.k = "fin" =>
             /\ RLt(Int2Rat(0), size.r)
             /\ ret.total_predicted_yield = Fin(Round(RMul(per_acre, size.r), 2))

C16_Witness ==
  /\ call.op = "_predict_yield"
  /\ call.farm_config.seedVariety = JStr(T_bg352)
  /\ call.farm_config.fieldSize = JStr(T_2p5)
  /\ "base_yield_per_acre" \in DOMAIN ret
  /\ ret.base_yield_per_acre = Rat(45, 10)

C16_WitnessMean ==
  /\ call.op = "_predict_yield"
  /\ call.farm_config.seedVariety = JStr(T_Samba)
  /\ "base_yield_per_acre" \in DOMAIN ret
  /\ ret.crop_type = K_Rice
  /\ ret.base_yield_per_acre = Rat(412, 100)


(* C17: for a known crop and a planting date that resolves, whatever the   *)
(* seedVariety and the current date, _forecast_harvest returns the         *)
(* planting date plus the growth period of the crop's first listed         *)
(* variety (growth_days, else growth_years x 365) as expected harvest      *)
(* date; growth_stage_percentage is within [0, 100] and 0 for a planting   *)
(* date in the future; harvest_status is Ready for days_to_harvest <= 0,   *)
(* Growing for 1..30 and Early stage otherwise.                            *)
C17_HarvestForecast ==
  LET cfg == call.farm_config
      planted == ParsePlantingDate(strip(cfg.plantingDate.s), call.now)
      first == CropData(strip(cfg.cropType.s))[1].v
      period == IF "growth_days" \in DOMAIN first THEN first.growth_days
                ELSE first.growth_years * 365
  IN (/\ call.op = "_forecast_harvest"
      /\ cfg.cropType.t = "str"
      /\ Len(CropData(strip(cfg.cropType.s))) > 0
      /\ cfg.plantingDate.t = "str"
      /\ Len(strip(cfg.plantingDate.s)) > 0
      /\ ~Raised(planted))
     => /\ ~Raised(ret)
        /\ "expected_harvest_date" \in DOMAIN ret
        /\ ret.planting_date = Ord2Ymd(planted.ord)
        /\ ret.expected_harvest_date = Ord2Ymd(planted.ord + period)
        /\ RLe(Int2Rat(0), ret.growth_stage_percentage)
        /\ RLe(ret.growth_stage_percentage, Int2Rat(100))
        /\ planted.ord > call.now.ord => ret.growth_stage_percentage = Int2Rat(0)
        /\ ret.harvest_status =
             (IF ret.days_to_harvest <= 0 THEN "Ready"
              ELSE IF ret.days_to_harvest <= 30 THEN "Growing" ELSE "Early stage")

(* C17 for the planting dates whose harvest date is a date the datetime    *)
(* type can hold (not later than 9999-12-31)                               *)
C17_HarvestForecastInRange ==
  (/\ call.op = "_forecast_harvest"
   /\ call.farm_config.plantingDate # JStr(T_DateLast))
  => C17_HarvestForecast


HarvestResolves(forecast) ==
  forecast = OverflowError \/ (~Raised(forecast) /\ "planting_date" \in DOMAIN forecast)

GrowthStageResolves(growth_stage) == "stage" \in DOMAIN growth_stage

GrowthStagePlantingOrd(growth_stage, now) ==
  IF growth_stage.stage = "Pre-planting" THEN now.ord + growth_stage.days
  ELSE now.ord - growth_stage.days

(* C18: for every plantingDate string, padded with whitespace or not, the  *)
(* growth-stage calculator and the harvest forecaster resolve the same     *)
(* planting date, or both report that the date cannot be resolved.         *)
C18_SameDateParsing ==
  (call.op = "_calculate_growth_stage")
  => /\ GrowthStageResolves(ret)
          <=> HarvestResolves(_forecast_harvest(call.farm_config, call.now))
     /\ (/\ GrowthStageResolves(ret)
         /\ ~Raised(_forecast_harvest(call.farm_config, call.now))
         /\ "planting_date" \in DOMAIN _forecast_harvest(call.farm_config, call.now))
        => Ord2Ymd(GrowthStagePlantingOrd(ret, call.now))
             = _forecast_harvest(call.farm_config, call.now).planting_date

(* C18 for the plantingDate strings without leading or trailing whitespace *)
C18_SameDateParsingUnpadded ==
  (/\ call.op = "_calculate_growth_stage"
   /\ strip(call.farm_config.plantingDate.s) # call.farm_config.plantingDate.s)
  \/ C18_SameDateParsing


ForecastEntryOk(entry, date) ==
  /\ entry.date = Ord2Ymd(date)
  /\ RLe(Int2Rat(40), entry.humidity_percentage)
  /\ RLe(entry.humidity_percentage, Int2Rat(95))
  /\ RLe(Int2Rat(10), entry.rainfall_probability)
  /\ RLe(entry.rainfall_probability, Int2Rat(90))
  /\ RLt(Int2Rat(70), entry.rainfall_probability) => entry.conditions = "Rainy"
  /\ (/\ RLt(Int2Rat(40), entry.rainfall_probability)
      /\ RLe(entry.rainfall_probability, Int2Rat(70)))
     => entry.conditions = "Partly Cloudy"

(* C19: whatever the noise, the sensor aggregate and the climateZone       *)
(* string, _forecast_weather returns exactly 7 entries dated today ..      *)
(* today+6, each with humidity in [40, 95] and rainfall probability in     *)
(* [10, 90], labelled Rainy when the probability is above 70 and Partly    *)
(* Cloudy when it is in (40, 70], whatever the temperature and humidity.   *)
C19_WeatherForecast ==
  (call.op = "_forecast_weather")
  => /\ Len(ret.forecast_days) = 7
     /\ \A i \in 1..7 : ForecastEntryOk(ret.forecast_days[i], call.now.ord + (i - 1))

(* a forecast across the end of a month for a hot aggregate, with a Rainy  *)
(* day, a Partly Cloudy day and the humidity clamped at both ends          *)
C19_Witness ==
  /\ call.op = "_forecast_weather"
  /\ "average_temperature" \in DOMAIN call.sensor_analysis
  /\ RLt(Int2Rat(32), call.sensor_analysis.average_temperature)
  /\ ret.forecast_days[1].date.m < ret.forecast_days[7].date.m
  /\ \E i \in 1..7 : ret.forecast_days[i].conditions = "Rainy"
  /\ \E i \in 1..7 : ret.forecast_days[i].conditions = "Partly Cloudy"
  /\ \E i \in 1..7 : ret.forecast_days[i].humidity_percentage = Int2Rat(40)
  /\ \E i \in 1..7 : ret.forecast_days[i].humidity_percentage = Int2Rat(95)


CanonicalSpelling(keys, value) ==
  IF value.t = "str" /\ \E i \in 1..Len(keys) : lower(keys[i]) = lower(value.s)
  THEN JStr(keys[CHOOSE i \in 1..Len(keys) : lower(keys[i]) = lower(value.s)])
  ELSE value

CanonicalConfig(farm_config) ==
  [farm_config EXCEPT
     !.cropType = CanonicalSpelling(DictKeys(sri_lanka_data.crop_varieties), @),
     !.climateZone = CanonicalSpelling(DictKeys(sri_lanka_data.climate_zones), @)]

SameYield(prediction, canonical) ==
  /\ ~Raised(prediction)
  /\ "crop_type" \in DOMAIN prediction
  /\ prediction.crop_type = canonical.crop_type
  /\ prediction.environmental_factors.climate_factor
       = canonical.environmental_factors.climate_factor
  /\ prediction.predicted_yield_per_acre = canonical.predicted_yield_per_acre
  /\ prediction.total_predicted_yield = canonical.total_predicted_yield

(* C20: when cropType or climateZone differs from its table key only in    *)
(* letter case, _predict_yield returns the same canonical crop_type, the    *)
(* same climate_factor and the same predicted and total yield as for the    *)
(* canonical spelling with the same other inputs.                           *)
C20_CaseInsensitiveYield ==
  (/\ call.op = "_predict_yield"
   /\ CanonicalConfig(call.farm_config) # call.farm_config
   /\ ~Raised(_predict_yield(CanonicalConfig(call.farm_config), call.sensor_analysis))
   /\ "crop_type" \in DOMAIN _predict_yield(CanonicalConfig(call.farm_config),
                                             call.sensor_analysis))
  => SameYield(ret, _predict_yield(CanonicalConfig(call.farm_config), call.sensor_analysis))

(* C20 for the crops that are not among the optimal crops of the canonical *)
(* zone, where the climate factor is 0.9 under either spelling             *)
C20_CaseInsensitiveYieldNotOptimal ==
  (/\ call.op = "_predict_yield"
   /\ _calculate_climate_factor(CanonicalConfig(call.farm_config)) = Rat(11, 10))
  \/ C20_CaseInsensitiveYield


PositiveFieldSize(farm_config) ==
  LET field_size == ParseFieldSize(Get(farm_config, "fieldSize",
                                       Get(farm_config, "field_size_acres", JStr(<<"0">>))))
  IN field_size.k = "fin" /\ RLt(Int2Rat(0), field_size.r)

(* C21: for every crop that has entries in the crop-variety table (Rice,   *)
(* Tea, Coconut), every seedVariety (listed, unlisted or empty) and every  *)
(* positive numeric fieldSize, _predict_yield returns a prediction that    *)
(* carries a yield unit, not an error status.                              *)
C21_TableCropsPredicted ==
  (/\ call.op = "_predict_yield"
   /\ call.farm_config.cropType.t = "str"
   /\ DictHas(sri_lanka_data.crop_varieties, call.farm_config.cropType.s)
   /\ call.farm_config.seedVariety.t \in {"str", "absent"}
   /\ PositiveFieldSize(call.farm_config))
  => /\ ~Raised(ret)
     /\ "status" \notin DOMAIN ret
     /\ "yield_unit" \in DOMAIN ret
     /\ ret.yield_unit = _get_yield_unit(call.farm_config.cropType.s)

(* C21 for the table crops whose varieties carry a yield_per_acre (Rice,   *)
(* Tea)                                                                    *)
C21_TableCropsPredictedWithYield ==
  (/\ call.op = "_predict_yield"
   /\ call.farm_config.cropType = JStr(K_Coconut))
  \/ C21_TableCropsPredicted


HasDiseaseAlert(alerts) ==
  \E i \in 1..Len(alerts) : alerts[i].message = "High disease risk detected"

DailyMonitoring(disease_risk) ==
  disease_risk.monitoring_advice
    = "Daily monitoring recommended - take immediate preventive action"

(* C22: in every report of analyze_farm_data the "High disease risk        *)
(* detected" alert is among the alerts exactly when the risk category of   *)
(* the disease_risk section is High, which is exactly when its monitoring  *)
(* advice is the daily one.                                                *)
C22_DiseaseAlertIffHigh ==
  (call.op = "analyze_farm_data" /\ ~Raised(ret))
  => /\ HasDiseaseAlert(ret.alerts) <=> (ret.disease_risk.risk_category = "High")
     /\ HasDiseaseAlert(ret.alerts) <=> DailyMonitoring(ret.disease_risk)

(* C22 for the reports whose overall risk level is not exactly 60          *)
C22_DiseaseAlertIffHighNot60 ==
  (/\ call.op = "analyze_farm_data"
   /\ ~Raised(ret)
   /\ ret.disease_risk.overall_risk_level = 60)
  \/ C22_DiseaseAlertIffHigh


(* C23: in every successful result of _forecast_harvest the growth stage   *)
(* name Harvest Ready never comes with the harvest status Early stage, and *)
(* the harvest status Ready comes only with the name Harvest Ready.        *)
C23_StageAndStatusAgree ==
  (/\ call.op = "_forecast_harvest"
   /\ ~Raised(ret)
   /\ "harvest_status" \in DOMAIN ret)
  => /\ ~(ret.growth_stage_name = "Harvest Ready" /\ ret.harvest_status = "Early stage")
     /\ ret.harvest_status = "Ready" => ret.growth_stage_name = "Harvest Ready"

(* the second half of C23 alone: Ready only with Harvest Ready             *)
C23_ReadyOnlyWhenHarvestReady ==
  (/\ call.op = "_forecast_harvest"
   /\ ~Raised(ret)
   /\ "harvest_status" \in DOMAIN ret
   /\ ret.harvest_status = "Ready")
  => ret.growth_stage_name = "Harvest Ready"


SensorDriven == {"Temperature Management", "Irrigation", "Drainage"}

NoSensorDrivenItem(recommendations) ==
  \A i \in 1..Len(recommendations) : recommendations[i].category \notin SensorDriven

(* C24: when sensor_data is empty the recommendation list holds none of    *)
(* the sensor-driven items Temperature Management, Irrigation or Drainage, *)
(* for every farm_config, cropType Rice included.                          *)
C24_NoDataNoSensorItems ==
  /\ (/\ call.op = "_generate_sri_lankan_recommendations"
      /\ call.sensor_analysis = NoSensorData)
     => NoSensorDrivenItem(ret)
  /\ (/\ call.op = "analyze_farm_data"
      /\ call.sensor_data = << >>
      /\ ~Raised(ret))
     => NoSensorDrivenItem(ret.recommendations)

(* C24 for every cropType other than the exact spelling Rice               *)
C24_NoDataNoSensorItemsNotRice ==
  (/\ call.op \in {"_generate_sri_lankan_recommendations", "analyze_farm_data"}
   /\ call.farm_config.cropType = JStr(K_Rice))
  \/ C24_NoDataNoSensorItems

====
